---- MODULE Spec2Model ----
(***************************************************************************)
(* Per-frame resource pipeline and render-item draw system of ShapesApp    *)
(* (Week4-1-ShapesAppUsingDescriptorTable.cpp).                            *)
(*                                                                         *)
(* The CPU thread runs Initialize, then the frame loop (Update, Draw) and  *)
(* finally the destructor.  The GPU is a second timeline that consumes the *)
(* command queue in order; the only link between the two is the fence.     *)
(*                                                                         *)
(* Numbers that are floats in the source are fixed-point integers in       *)
(* tenths (1.0 is 10).  A 4x4 matrix is kept by the entries the code       *)
(* reads or writes by position: (0,0), the translation entries (3,0) and   *)
(* (3,1), and their mirror images (0,3) and (1,3).                         *)
(***************************************************************************)
EXTENDS Integers, Sequences, FiniteSets, TLC

\* ------------------------------------------------------------------ bounds
\* Number of frames the loop may start before it must quit.
MaxFrames == 5
\* GameTimer::DeltaTime() of a frame is drawn from 0..MaxDelta.
MaxDelta == 1
\* Number of maze boxes built (the source lists 24 of them, all alike).
NumMazeItems == 2
\* Items of the scenes SpecLayers spreads over the layers, and its frames.
NumLayerItems == 4
LayerFrames == 2
\* A generated mesh is a strip of 1..MaxMeshSize triangles.
MaxMeshSize == 2

\* --------------------------------------------------------------- constants
gNumFrameResources == 3

\* enum class RenderLayer
Opaque == 0
Transparent == 1
AlphaTested == 2
AlphaTestedTreeSprites == 3
RenderLayerCount == 4

Slots == 0 .. (gNumFrameResources - 1)
Layers == 0 .. (RenderLayerCount - 1)

VARIABLES
  pc,                      \* position of the CPU thread
  md3dDevice,              \* TRUE once the device exists
  gt,                      \* GameTimer: [TotalTime, DeltaTime]
  mIsWireframe,
  mCurrFrameResourceIndex,
  mCurrentFence,           \* last fence value issued by the CPU
  mFence,                  \* ID3D12Fence::GetCompletedValue()
  mCommandQueue,           \* work submitted and not yet retired by the GPU
  mCommandList,            \* commands recorded into the shared command list
  mFrameResources,         \* slot -> [Fence, ObjectCB, MaterialCB, PassCB]
  mMaterials,              \* name -> Material
  mAllRitems,              \* sequence of RenderItem
  mRitemLayer,             \* layer -> sequence of positions in mAllRitems
  mMainPassCB,
  released,                \* TRUE once the frame resources are destroyed
  frameNo,                 \* history: number of Updates begun
  slotHistory,             \* history: ring slot selected by each Update
  fenceHistory,            \* history: fence value issued by each submit
  cbWrites,                \* history: slot -> number of CopyData calls
  passWrites,              \* history: slot -> number of PassCB CopyData calls
  mTextures,               \* names of the textures, in the order inserted
  mSrvDescriptorHeap,      \* descriptor slot -> texture viewed
  srvWrites,               \* history: the views created, in order
  mClientWidth,
  mClientHeight,
  mProj,
  exception,               \* the call whose DxException is propagating
  failedCall,              \* history: the first call that failed
  reported,                \* the call named by the message box of WinMain
  meshes,                  \* the MeshData the GeometryGenerator returned
  mGeometries,             \* name -> MeshGeometry
  cmdTrace                 \* history: the calls on the command list and
                           \* on the allocators, in order

\* The textures and their descriptor heap.
heapVars == << mTextures, mSrvDescriptorHeap, srvWrites >>
\* The generated meshes and the geometries built of them.
geoVars == << meshes, mGeometries >>
\* The client area and the projection.
winVars == << mClientWidth, mClientHeight, mProj >>
\* The failure in flight and what became of it.
failVars == << exception, failedCall, reported >>

vars == << pc, md3dDevice, gt, mIsWireframe, mCurrFrameResourceIndex,
           mCurrentFence, mFence, mCommandQueue, mCommandList,
           mFrameResources, mMaterials, mAllRitems, mRitemLayer,
           mMainPassCB, released, frameNo, slotHistory, fenceHistory,
           cbWrites, passWrites, heapVars, geoVars, cmdTrace, winVars, failVars >>

\* ---------------------------------------------------------------- matrices
Matrix(m00, m30, m31) ==
  [m00 |-> m00, m30 |-> m30, m31 |-> m31, m03 |-> 0, m13 |-> 0]

Identity4x4 == Matrix(10, 0, 0)

XMMatrixTranspose(M) ==
  [m00 |-> M.m00, m30 |-> M.m03, m31 |-> M.m13, m03 |-> M.m30, m13 |-> M.m31]

\* MathHelper::InverseTranspose: the translation row is cleared, the rest is
\* inverted and transposed.  The inverse is kept symbolically.
InverseTranspose(M) ==
  [inverseOf |-> [M EXCEPT !.m30 = 0, !.m31 = 0], transposed |-> TRUE]

XMMatrixTransposeSym(S) == [S EXCEPT !.transposed = ~S.transposed]

\* ------------------------------------------------- client area, projection
\* A float quotient kept by its two operands: the division of floats does
\* not fault on a divisor of 0.
Quotient(n, d) == [num |-> n, den |-> d]

\* D3DApp::AspectRatio
AspectRatio(width, height) == Quotient(width, height)

\* XMMatrixPerspectiveFovLH(0.25f*Pi, aspect, 1.0f, 1000.0f), kept by its
\* operands; transposed as the symbolic matrices are.
XMMatrixPerspectiveFovLH(aspect) ==
  [ perspective |-> [FovAngleY |-> "Pi/4", AspectRatio |-> aspect,
                     NearZ |-> 10, FarZ |-> 10000],
    transposed |-> FALSE ]

\* ------------------------------------------------------------ upload buffers
\* Content of a constant-buffer element nothing was copied into yet.
Uninit == [uninit |-> TRUE]

\* sizeof(ObjectConstants): two 4x4 float matrices; sizeof(MaterialConstants):
\* a float4, a float3, a float and a 4x4 float matrix.
SizeofObjectConstants == 128
SizeofMaterialConstants == 96

\* d3dUtil::CalcConstantBufferByteSize: the size rounded up to the next
\* multiple of 256, (byteSize + 255) & ~255.
CalcConstantBufferByteSize(byteSize) == ((byteSize + 255) \div 256) * 256

\* UploadBuffer<T> of a constant buffer: the byte size of the resource it
\* creates for its elements.
UploadBufferByteSize(buf, sizeofT) ==
  CalcConstantBufferByteSize(sizeofT) * Cardinality(DOMAIN buf)

\* ID3D12Resource::GetGPUVirtualAddress of the buffer `member` of the frame
\* resource at slot: where the driver put the resource, kept as its name.
GetGPUVirtualAddress(slot, member) == << slot, member >>

\* UploadBuffer<T>::CopyData(elementIndex, data)
CopyData(buf, elementIndex, data) == [buf EXCEPT ![elementIndex] = data]

\* FrameResource(device, passCount, objectCount, materialCount)
FrameResource(passCount, objectCount, materialCount) ==
  [ Fence      |-> 0,
    PassCB     |-> [i \in 0 .. (passCount - 1) |-> Uninit],
    ObjectCB   |-> [i \in 0 .. (objectCount - 1) |-> Uninit],
    MaterialCB |-> [i \in 0 .. (materialCount - 1) |-> Uninit] ]

\* --------------------------------------------------------------- materials
\* struct Material as default-constructed (Common/d3dUtil.h).
Material ==
  [ MatCBIndex |-> -1, DiffuseSrvHeapIndex |-> -1, NormalSrvHeapIndex |-> -1,
    NumFramesDirty |-> gNumFrameResources,
    DiffuseAlbedo |-> <<10, 10, 10, 10>>, FresnelR0 |-> <<1, 1, 1>>,
    Roughness |-> 25, MatTransform |-> Identity4x4 ]

NewMaterial(cb, srv, albedo, fresnel, rough) ==
  [ Material EXCEPT !.MatCBIndex = cb, !.DiffuseSrvHeapIndex = srv,
                    !.DiffuseAlbedo = albedo, !.FresnelR0 = fresnel,
                    !.Roughness = rough ]

MaterialNames ==
  { "bricks0", "stone0", "sand0", "gutsy", "water0", "ice0", "flag0", "door",
    "treeSprites" }

\* ShapesApp::BuildMaterials.  Albedo in tenths, FresnelR0 and Roughness in
\* hundredths (0.125 is kept as 12).
BuildMaterials ==
  [ n \in MaterialNames |->
      CASE n = "bricks0" -> NewMaterial(0, 0, <<10, 10, 10, 10>>, <<5, 5, 5>>, 90)
        [] n = "stone0"  -> NewMaterial(1, 1, <<8, 8, 10, 10>>, <<20, 20, 20>>, 90)
        [] n = "sand0"   -> NewMaterial(2, 2, <<10, 10, 10, 10>>, <<60, 60, 60>>, 95)
        [] n = "gutsy"   -> NewMaterial(3, 3, <<10, 10, 10, 10>>, <<60, 60, 60>>, 30)
        [] n = "water0"  -> NewMaterial(4, 4, <<10, 10, 10, 5>>, <<100, 100, 100>>, 100)
        [] n = "ice0"    -> NewMaterial(5, 5, <<10, 10, 10, 8>>, <<100, 100, 100>>, 10)
        [] n = "flag0"   -> NewMaterial(6, 6, <<10, 10, 10, 10>>, <<20, 20, 20>>, 70)
        [] n = "door"    -> NewMaterial(7, 7, <<10, 10, 10, 10>>, <<2, 2, 2>>, 25)
        [] OTHER         -> NewMaterial(8, 8, <<10, 10, 10, 10>>, <<1, 1, 1>>, 12) ]

\* ------------------------------------------------- textures and their views
\* ShapesApp::LoadTextures: the names of the textures in the order they are
\* inserted into mTextures.
LoadTextures ==
  << "bricksTex", "stoneTex", "sandTex", "waterTex", "iceTex", "redTex",
     "flagTex", "boneTex", "treeArrayTex" >>

\* The texture a material is made for: the one of its name, and for gutsy and
\* door the ones loaded from gutsy.dds and door.dds.
TextureOfMaterial(n) ==
  CASE n = "bricks0" -> "bricksTex"
    [] n = "stone0"  -> "stoneTex"
    [] n = "sand0"   -> "sandTex"
    [] n = "gutsy"   -> "redTex"
    [] n = "water0"  -> "waterTex"
    [] n = "ice0"    -> "iceTex"
    [] n = "flag0"   -> "flagTex"
    [] n = "door"    -> "boneTex"
    [] OTHER         -> "treeArrayTex"

\* srvHeapDesc.NumDescriptors
NumDescriptors == 10

\* A descriptor no view was created at.
NoView == ""

\* Variant of SrvOrder: the views are created in the order of LoadTextures.
SrvOrder_AsLoaded == LoadTextures

\* ShapesApp::BuildDescriptorHeaps: the textures in the order their views are
\* created.
SrvOrder ==
  << "bricksTex", "stoneTex", "sandTex", "redTex", "waterTex", "iceTex",
     "flagTex", "boneTex", "treeArrayTex" >>

\* Variant of Offset: the handle is not advanced.
Offset_Stuck(h, n) == h

\* CD3DX12_CPU_DESCRIPTOR_HANDLE::Offset(n, mCbvSrvDescriptorSize), the handle
\* counted in descriptors from the start of the heap.
Offset(h, n) == h + n

\* ShapesApp::BuildDescriptorHeaps: the CreateShaderResourceView calls for
\* the textures of order, hDescriptor standing at h.
RECURSIVE CreateViews(_, _)
CreateViews(order, h) ==
  IF order = << >> THEN << >>
  ELSE << [tex |-> Head(order), slot |-> h] >>
         \o CreateViews(Tail(order), Offset(h, 1))

\* ShapesApp::BuildDescriptorHeaps: the views created.
BuildDescriptorHeaps == CreateViews(SrvOrder, 0)

\* The heap after the views of writes were created in it, a later view
\* replacing an earlier one at the same descriptor.
DescriptorHeap(writes) ==
  [ d \in 0 .. (NumDescriptors - 1) |->
      LET W == { i \in 1 .. Len(writes) : writes[i].slot = d }
      IN IF W = {} THEN NoView
         ELSE writes[CHOOSE i \in W : \A j \in W : j <= i].tex ]

\* ---------------------------------------------------------------- geometry
\* GeometryGenerator::MeshData of a strip of n triangles: of a mesh only the
\* sizes of its vertex list and of its index list are kept.
MeshData(n) == [ Vertices |-> n + 2, Indices32 |-> 3 * n ]

\* The meshes BuildShapeGeometry generates, in the order generated.
MeshOrder ==
  << "wall1", "grid", "sphere", "cylinder", "cone", "building", "torus",
     "diamond", "door", "wedge", "prism", "water", "grid2" >>

MeshNames == { MeshOrder[i] : i \in 1 .. Len(MeshOrder) }

\* Sizes a generated mesh may have.
MeshSizes == { MeshData(n) : n \in 1 .. MaxMeshSize }

\* The meshes of the calls as written: grid, water and grid2 are grids of
\* the same 120 x 40 vertices, wall1 and building the same box; every mesh is
\* kept as one triangle.
GeneratedMeshes == [ name \in MeshNames |-> MeshData(1) ]

\* ShapesApp::BuildShapeGeometry: the vertex offset cached for each sub-mesh.
VertexOffsets(m) ==
  LET boxVertexOffset == 0
      gridVertexOffset == m["wall1"].Vertices
      waterVertexOffset == gridVertexOffset + m["water"].Vertices
      sphereVertexOffset == waterVertexOffset + m["grid"].Vertices
      cylinderVertexOffset == sphereVertexOffset + m["sphere"].Vertices
      coneVertexOffset == cylinderVertexOffset + m["cylinder"].Vertices
      buildingVertexOffset == coneVertexOffset + m["cone"].Vertices
      torusVertexOffset == buildingVertexOffset + m["building"].Vertices
      diamondVertexOffset == torusVertexOffset + m["torus"].Vertices
      doorVertexOffset == diamondVertexOffset + m["diamond"].Vertices
      wedgeVertexOffset == doorVertexOffset + m["door"].Vertices
      prismVertexOffset == wedgeVertexOffset + m["wedge"].Vertices
      grid2VertexOffset == prismVertexOffset + m["prism"].Vertices
  IN  [ box |-> boxVertexOffset, grid |-> gridVertexOffset,
        water |-> waterVertexOffset, sphere |-> sphereVertexOffset,
        cylinder |-> cylinderVertexOffset, cone |-> coneVertexOffset,
        building |-> buildingVertexOffset, torus |-> torusVertexOffset,
        diamond |-> diamondVertexOffset, door |-> doorVertexOffset,
        wedge |-> wedgeVertexOffset, prism |-> prismVertexOffset,
        grid2 |-> grid2VertexOffset ]

\* ShapesApp::BuildShapeGeometry: the starting index cached for each
\* sub-mesh.
IndexOffsets(m) ==
  LET boxIndexOffset == 0
      gridIndexOffset == m["wall1"].Indices32
      waterIndexOffset == gridIndexOffset + m["grid"].Indices32
      sphereIndexOffset == waterIndexOffset + m["water"].Indices32
      cylinderIndexOffset == sphereIndexOffset + m["sphere"].Indices32
      coneIndexOffset == cylinderIndexOffset + m["cylinder"].Indices32
      buildingIndexOffset == coneIndexOffset + m["cone"].Indices32
      torusIndexOffset == buildingIndexOffset + m["building"].Indices32
      diamondIndexOffset == torusIndexOffset + m["torus"].Indices32
      doorIndexOffset == diamondIndexOffset + m["diamond"].Indices32
      wedgeIndexOffset == doorIndexOffset + m["door"].Indices32
      prismIndexOffset == wedgeIndexOffset + m["wedge"].Indices32
      grid2IndexOffset == prismIndexOffset + m["prism"].Indices32
  IN  [ box |-> boxIndexOffset, grid |-> gridIndexOffset,
        water |-> waterIndexOffset, sphere |-> sphereIndexOffset,
        cylinder |-> cylinderIndexOffset, cone |-> coneIndexOffset,
        building |-> buildingIndexOffset, torus |-> torusIndexOffset,
        diamond |-> diamondIndexOffset, door |-> doorIndexOffset,
        wedge |-> wedgeIndexOffset, prism |-> prismIndexOffset,
        grid2 |-> grid2IndexOffset ]

\* The mesh each sub-mesh of shapeGeo is cut from.
MeshOf(subMesh) == IF subMesh = "box" THEN "wall1" ELSE subMesh

\* The sub-meshes of shapeGeo.
ShapeSubmeshes ==
  { "box", "grid", "water", "sphere", "cylinder", "cone", "building",
    "torus", "diamond", "door", "wedge", "prism", "grid2" }

\* The order in which the meshes are copied into the vertex buffer and
\* appended to the index buffer.
PackOrder ==
  << "wall1", "grid", "water", "sphere", "cylinder", "cone", "building",
     "torus", "diamond", "door", "wedge", "prism", "grid2" >>

\* The elements of the meshes order[from ..] one after the other, each
\* element kept as the name of its mesh.
RECURSIVE Pack(_, _, _, _)
Pack(m, order, field, from) ==
  IF from > Len(order) THEN << >>
  ELSE [ i \in 1 .. m[order[from]][field] |-> order[from] ]
         \o Pack(m, order, field, from + 1)

\* ShapesApp::BuildShapeGeometry: the MeshGeometry "shapeGeo" of the meshes.
BuildShapeGeometry(m) ==
  [ Vertices |-> Pack(m, PackOrder, "Vertices", 1),
    Indices |-> Pack(m, PackOrder, "Indices32", 1),
    DrawArgs |->
      [ name \in ShapeSubmeshes |->
          [ IndexCount |-> m[MeshOf(name)].Indices32,
            StartIndexLocation |-> IndexOffsets(m)[name],
            BaseVertexLocation |-> VertexOffsets(m)[name] ] ] ]

\* ------------------------------------------------------------ render items
\* struct RenderItem as default-constructed.
RenderItem ==
  [ World |-> Identity4x4, TexTransform |-> Identity4x4,
    NumFramesDirty |-> gNumFrameResources, ObjCBIndex |-> -1,
    Mat |-> "", SubMesh |-> "", IndexCount |-> 0 ]

\* ShapesApp::BuildShapeGeometry, BuildTreeSpritesGeometry: the sub-mesh
\* names registered in the DrawArgs of a geometry.
DrawArgs(geo) ==
  IF geo = "shapeGeo"
  THEN { "box", "grid", "sphere", "cylinder", "cone", "building", "torus",
         "diamond", "door", "wedge", "prism", "water", "grid2" }
  ELSE IF geo = "treeSpritesGeo" THEN { "points" } ELSE {}

\* The geometry an item of a sub-mesh is built on: treeSpritesGeo for the
\* tree sprites, shapeGeo for every other item.
GeoOf(subMesh) == IF subMesh = "points" THEN "treeSpritesGeo" ELSE "shapeGeo"

\* SubmeshGeometry as default-constructed.
SubmeshGeometry == [IndexCount |-> 0]

\* A sub-mesh as registered: its index count is the size of the index list
\* of a generated mesh, of which only that it holds a triangle is kept.
RegisteredSubmesh == [IndexCount |-> 3]

\* Geo->DrawArgs[name]: operator[] of the unordered_map, which inserts and
\* returns a default-constructed SubmeshGeometry for a name not registered.
DrawArgsLookup(geo, name) ==
  IF name \in DrawArgs(geo) THEN RegisteredSubmesh ELSE SubmeshGeometry

\* The scene in construction order: one row per kind of item the source
\* builds (walls, cylinders, cones, toruses and maze boxes are repeated in
\* the source with other coordinates only).
SceneHead ==
  << [World |-> Matrix(50, 0, 100),  Mat |-> "sand0",   SubMesh |-> "grid",     Layer |-> Opaque],
     [World |-> Identity4x4,         Mat |-> "sand0",   SubMesh |-> "grid2",    Layer |-> Opaque],
     [World |-> Matrix(10, 250, 40), Mat |-> "bricks0", SubMesh |-> "box",      Layer |-> Opaque],
     [World |-> Matrix(50, -250, 95), Mat |-> "stone0", SubMesh |-> "cylinder", Layer |-> Opaque],
     [World |-> Matrix(20, 0, 20),   Mat |-> "gutsy",   SubMesh |-> "building", Layer |-> Opaque],
     [World |-> Matrix(22, 0, 100),  Mat |-> "water0",  SubMesh |-> "torus",    Layer |-> Opaque],
     [World |-> Matrix(20, 0, 100),  Mat |-> "ice0",    SubMesh |-> "diamond",  Layer |-> Opaque],
     [World |-> Matrix(100, 0, 100), Mat |-> "door",    SubMesh |-> "door",     Layer |-> Opaque],
     [World |-> Matrix(5, 0, 15),    Mat |-> "water0",  SubMesh |-> "water",    Layer |-> Opaque] >>

SceneMaze ==
  [ i \in 1 .. NumMazeItems |->
      [World |-> Matrix(10, 50 * i, 20), Mat |-> "door", SubMesh |-> "box", Layer |-> Opaque] ]

SceneTail ==
  << [World |-> Identity4x4, Mat |-> "treeSprites", SubMesh |-> "points",
      Layer |-> AlphaTestedTreeSprites] >>

Scene == SceneHead \o SceneMaze \o SceneTail

\* Variant of ObjCBIndexOf: the running counter starts at 0, as the member
\* of the same name does.
ObjCBIndexOf_MemberCounter(i) == IF i = 1 THEN 0 ELSE 0 + (i - 2)

\* ObjCBIndex given to the item built at position i: the first item gets the
\* literal 0, the others the running counter that starts at 1.
ObjCBIndexOf(i) == IF i = 1 THEN 0 ELSE 1 + (i - 2)

\* ShapesApp::BuildRenderItems: mAllRitems of a scene.
BuildAllRitems(scene) ==
  [ i \in 1 .. Len(scene) |->
      [ RenderItem EXCEPT !.World = scene[i].World,
                          !.ObjCBIndex = ObjCBIndexOf(i),
                          !.Mat = scene[i].Mat,
                          !.SubMesh = scene[i].SubMesh,
                          !.IndexCount =
                             DrawArgsLookup(GeoOf(scene[i].SubMesh),
                                            scene[i].SubMesh).IndexCount ] ]

RECURSIVE PositionsOf(_, _, _)
PositionsOf(scene, layer, i) ==
  IF i > Len(scene) THEN << >>
  ELSE (IF scene[i].Layer = layer THEN << i >> ELSE << >>)
         \o PositionsOf(scene, layer, i + 1)

\* Variant of BuildRitemLayer: every item is pushed into the Opaque layer,
\* and into its own layer as well.
BuildRitemLayer_OpaqueToo(scene) ==
  [ l \in Layers |->
      IF l = Opaque
      THEN [ i \in 1 .. Len(scene) |-> i ]
      ELSE PositionsOf(scene, l, 1) ]

\* ShapesApp::BuildRenderItems: mRitemLayer of a scene.
BuildRitemLayer(scene) == [ l \in Layers |-> PositionsOf(scene, l, 1) ]

\* Materials after BuildRenderItems: every item sets its material's
\* NormalSrvHeapIndex to 1, the tree sprites excepted.
TouchNormalSrv(mats, scene) ==
  [ n \in DOMAIN mats |->
      IF \E i \in 1 .. Len(scene) :
           scene[i].Mat = n /\ scene[i].SubMesh # "points"
      THEN [mats[n] EXCEPT !.NormalSrvHeapIndex = 1]
      ELSE mats[n] ]

\* Variant of BuildFrameResources: the material buffers are sized by the
\* number of items.
BuildFrameResources_ItemCount(ritems, mats) ==
  [ k \in Slots |-> FrameResource(1, Len(ritems), Len(ritems)) ]

\* ShapesApp::BuildFrameResources
BuildFrameResources(ritems, mats) ==
  [ k \in Slots |-> FrameResource(1, Len(ritems), Cardinality(DOMAIN mats)) ]

\* ------------------------------------------------------------ GPU timeline
ExecCmd(alloc, cmds) == [kind |-> "exec", alloc |-> alloc, cmds |-> cmds]

\* mDirectCmdListAlloc, the allocator of the initialization commands (no
\* ring slot).
DirectCmdListAlloc == -1
SignalCmd(value) == [kind |-> "signal", value |-> value]

\* A submitted command list recorded with slot k's allocator and reading
\* slot k's constant buffers is still in the queue.
InFlight(k) ==
  \E i \in 1 .. Len(mCommandQueue) :
    mCommandQueue[i].kind = "exec" /\ mCommandQueue[i].alloc = k

\* The GPU retires the head of the queue; a Signal sets the fence.
GpuStep ==
  /\ Len(mCommandQueue) > 0
  /\ mCommandQueue' = Tail(mCommandQueue)
  /\ mFence' = IF Head(mCommandQueue).kind = "signal"
               THEN Head(mCommandQueue).value
               ELSE mFence
  /\ UNCHANGED << pc, md3dDevice, gt, mIsWireframe, mCurrFrameResourceIndex,
                  mCurrentFence, mCommandList, mFrameResources, mMaterials,
                  mAllRitems, mRitemLayer, mMainPassCB, released, frameNo,
                  slotHistory, fenceHistory, cbWrites >>
  /\ UNCHANGED << passWrites, heapVars, geoVars, cmdTrace, winVars, failVars >>

\* ------------------------------------------------------------------- Init
InitApp ==
  /\ pc = "init"
  /\ md3dDevice = FALSE
  /\ gt = [TotalTime |-> 0, DeltaTime |-> 0]
  /\ mIsWireframe = FALSE
  /\ mCurrFrameResourceIndex = 0
  /\ mCurrentFence = 0
  /\ mFence = 0
  /\ mCommandQueue = << >>
  /\ mCommandList = << >>
  /\ mFrameResources = << >>
  /\ mMaterials = << >>
  /\ mAllRitems = << >>
  /\ mRitemLayer = [l \in Layers |-> << >>]
  /\ mMainPassCB = [TotalTime |-> 0, DeltaTime |-> 0]
  /\ released = FALSE
  /\ frameNo = 0
  /\ slotHistory = << >>
  /\ fenceHistory = << >>
  /\ cbWrites = [k \in Slots |-> 0]
  /\ passWrites = [k \in Slots |-> 0]
  /\ mTextures = << >>
  /\ mSrvDescriptorHeap = << >>
  /\ srvWrites = << >>
  /\ mClientWidth = 800
  /\ mClientHeight = 600
  /\ mProj = Identity4x4
  /\ exception = "none"
  /\ failedCall = "none"
  /\ reported = "none"
  /\ mGeometries = << >>
  /\ cmdTrace = << >>

\* The program as started: the meshes are those its generator calls return.
Init ==
  /\ InitApp
  /\ meshes = GeneratedMeshes

\* The program started with meshes of any sizes.
InitGeometry ==
  /\ InitApp
  /\ meshes \in [ MeshNames -> MeshSizes ]

\* --------------------------------------------------------- FlushCommandQueue
\* D3DApp::FlushCommandQueue, first half: a new fence value is issued and its
\* Signal is put on the queue.
FlushSignal ==
  /\ mCurrentFence' = mCurrentFence + 1
  /\ mCommandQueue' = Append(mCommandQueue, SignalCmd(mCurrentFence + 1))

\* D3DApp::FlushCommandQueue, second half: returns once the GPU has reached
\* the value issued.
FlushReturns == mFence >= mCurrentFence

\* ------------------------------------------------------------ command list
\* The calls on the shared command list and on the allocators.
AllocResetOp(alloc) == [op |-> "Allocator::Reset", alloc |-> alloc]
ListResetOp(alloc) == [op |-> "Reset", alloc |-> alloc]
RecordOp == [op |-> "Record"]
CloseOp == [op |-> "Close"]
ExecuteOp == [op |-> "ExecuteCommandLists"]

\* ShapesApp::Initialize: the list is reset onto mDirectCmdListAlloc, the
\* Build functions record the upload copies, the list is closed and executed.
InitializeListOps ==
  << ListResetOp(DirectCmdListAlloc), RecordOp, CloseOp, ExecuteOp >>

\* Variant of DrawResetOps: the list is reset before its allocator.
DrawResetOps_ListFirst(alloc) == << ListResetOp(alloc), AllocResetOp(alloc) >>

\* ShapesApp::Draw: cmdListAlloc->Reset(), then mCommandList->Reset onto it.
DrawResetOps(alloc) == << AllocResetOp(alloc), ListResetOp(alloc) >>

\* ShapesApp::Draw: mCommandList->Close(), then ExecuteCommandLists.
DrawSubmitOps == << CloseOp, ExecuteOp >>

\* -------------------------------------------------------------- Initialize
\* ShapesApp::Initialize up to the wait of its FlushCommandQueue.
InitializeWith(scene) ==
  /\ pc = "init"
  /\ md3dDevice' = TRUE
  /\ mMaterials' = TouchNormalSrv(BuildMaterials, scene)
  /\ mAllRitems' = BuildAllRitems(scene)
  /\ mRitemLayer' = BuildRitemLayer(scene)
  /\ mFrameResources' = BuildFrameResources(mAllRitems', mMaterials')
  /\ mTextures' = LoadTextures
  /\ srvWrites' = BuildDescriptorHeaps
  /\ mSrvDescriptorHeap' = DescriptorHeap(srvWrites')
  /\ mProj' = XMMatrixPerspectiveFovLH(AspectRatio(mClientWidth, mClientHeight))
  /\ mCurrentFence' = mCurrentFence + 1
  /\ mCommandQueue' = mCommandQueue \o
                        << ExecCmd(DirectCmdListAlloc, << >>), SignalCmd(mCurrentFence + 1) >>
  /\ cmdTrace' = cmdTrace \o InitializeListOps
  /\ pc' = "init_flush"
  /\ UNCHANGED << gt, mIsWireframe, mCurrFrameResourceIndex, mFence,
                  mCommandList, mMainPassCB, released, frameNo, slotHistory,
                  fenceHistory, cbWrites >>
  /\ mGeometries' = [ shapeGeo |-> BuildShapeGeometry(meshes) ]
  /\ UNCHANGED << passWrites, mClientWidth, mClientHeight, failVars, meshes >>

Initialize == InitializeWith(Scene)

\* D3DApp::Initialize returned false: WinMain returns and theApp is destroyed.
InitializeFails ==
  /\ pc = "init"
  /\ md3dDevice' \in BOOLEAN
  /\ pc' = "dtor"
  /\ UNCHANGED << gt, mIsWireframe, mCurrFrameResourceIndex, mCurrentFence,
                  mFence, mCommandQueue, mCommandList, mFrameResources,
                  mMaterials, mAllRitems, mRitemLayer, mMainPassCB, released,
                  frameNo, slotHistory, fenceHistory, cbWrites >>
  /\ UNCHANGED << passWrites, heapVars, geoVars, cmdTrace, winVars, failVars >>

\* The FlushCommandQueue that ends Initialize returns; the frame loop starts.
InitializeDone ==
  /\ pc = "init_flush"
  /\ FlushReturns
  /\ pc' = "idle"
  /\ UNCHANGED << md3dDevice, gt, mIsWireframe, mCurrFrameResourceIndex,
                  mCurrentFence, mFence, mCommandQueue, mCommandList,
                  mFrameResources, mMaterials, mAllRitems, mRitemLayer,
                  mMainPassCB, released, frameNo, slotHistory, fenceHistory,
                  cbWrites >>
  /\ UNCHANGED << passWrites, heapVars, geoVars, cmdTrace, winVars, failVars >>

\* ------------------------------------------------------------------ Update
\* Variant of NextFrameResourceIndex: the modulus is one too small.
NextFrameResourceIndex_ShortRing(i) == (i + 1) % (gNumFrameResources - 1)

\* Cycle through the circular frame resource array.
NextFrameResourceIndex(i) == (i + 1) % gNumFrameResources

\* Variant of MustWait: the comparison is the wrong way round.
MustWait_Inverted(fence, completed) == fence # 0 /\ completed > fence

\* Variant of MustWait: waits whenever the slot was used before.
MustWait_Always(fence, completed) == fence # 0

\* Variant of MustWait: the advance never waits.
MustWait_Never(fence, completed) == FALSE

\* Has the GPU finished processing the commands of the frame resource?
MustWait(fence, completed) == fence # 0 /\ completed < fence

\* Variant of WaitReturns: the event is registered for the value before.
WaitReturns_Early(fence, completed) == completed >= fence - 1

\* SetEventOnCompletion(fence) + WaitForSingleObject: the event is set once
\* the completed value has reached the fence.
WaitReturns(fence, completed) == completed >= fence

\* ShapesApp::Update from its entry to the decision whether to wait.
UpdateAdvance(maxFrames, maxDelta) ==
  /\ pc = "idle"
  /\ frameNo < maxFrames
  /\ \E dt \in 0 .. maxDelta, key \in BOOLEAN :
       /\ gt' = [TotalTime |-> gt.TotalTime + dt, DeltaTime |-> dt]
       /\ mIsWireframe' = key
  /\ mCurrFrameResourceIndex' = NextFrameResourceIndex(mCurrFrameResourceIndex)
  /\ pc' = IF MustWait(mFrameResources[mCurrFrameResourceIndex'].Fence, mFence)
           THEN "wait" ELSE "animate"
  /\ frameNo' = frameNo + 1
  /\ slotHistory' = Append(slotHistory, mCurrFrameResourceIndex')
  /\ UNCHANGED << md3dDevice, mCurrentFence, mFence, mCommandQueue,
                  mCommandList, mFrameResources, mMaterials, mAllRitems,
                  mRitemLayer, mMainPassCB, released, fenceHistory, cbWrites >>
  /\ UNCHANGED << passWrites, heapVars, geoVars, cmdTrace, winVars, failVars >>

Update_Advance == UpdateAdvance(MaxFrames, MaxDelta)

\* The fence wait of Update returns.
Update_Wait ==
  /\ pc = "wait"
  /\ WaitReturns(mFrameResources[mCurrFrameResourceIndex].Fence, mFence)
  /\ pc' = "animate"
  /\ UNCHANGED << md3dDevice, gt, mIsWireframe, mCurrFrameResourceIndex,
                  mCurrentFence, mFence, mCommandQueue, mCommandList,
                  mFrameResources, mMaterials, mAllRitems, mRitemLayer,
                  mMainPassCB, released, frameNo, slotHistory, fenceHistory,
                  cbWrites >>
  /\ UNCHANGED << passWrites, heapVars, geoVars, cmdTrace, winVars, failVars >>

\* Variant of AnimateWater: the scrolling also moves the material to the
\* constant slot after its own.
AnimateWater_Reslotted(mat, dt) ==
  [mat EXCEPT !.MatTransform.m30 = @ - dt, !.MatCBIndex = (@ + 1) % 9,
              !.NumFramesDirty = gNumFrameResources]

\* Variant of AnimateWater: the material is marked dirty for one frame only.
AnimateWater_DirtyOnce(mat, dt) ==
  [mat EXCEPT !.MatTransform.m30 = @ - dt, !.NumFramesDirty = 1]

\* ShapesApp::AnimateMaterials on the water material.
AnimateWater(mat, dt) ==
  LET tu == mat.MatTransform.m30 - dt
      tv == IF mat.MatTransform.m31 <= 0
            THEN mat.MatTransform.m31 + 5
            ELSE mat.MatTransform.m31
  IN [mat EXCEPT !.MatTransform.m30 = tu, !.MatTransform.m31 = tv,
                 !.NumFramesDirty = gNumFrameResources]

\* Variant of AnimateGutsy: the material is not marked dirty.
AnimateGutsy_NoDirty(mat, dt) ==
  [mat EXCEPT !.MatTransform.m30 = @ + dt, !.MatTransform.m31 = @ + dt]

\* ShapesApp::AnimateMaterials on the gutsy material.
AnimateGutsy(mat, dt) ==
  [mat EXCEPT !.MatTransform.m30 = @ + dt, !.MatTransform.m31 = @ + dt,
              !.NumFramesDirty = gNumFrameResources]

AnimateMaterials ==
  /\ pc = "animate"
  /\ mMaterials' = [mMaterials EXCEPT
                      !["water0"] = AnimateWater(@, gt.DeltaTime),
                      !["gutsy"] = AnimateGutsy(@, gt.DeltaTime)]
  /\ pc' = "copy"
  /\ UNCHANGED << md3dDevice, gt, mIsWireframe, mCurrFrameResourceIndex,
                  mCurrentFence, mFence, mCommandQueue, mCommandList,
                  mFrameResources, mAllRitems, mRitemLayer, mMainPassCB,
                  released, frameNo, slotHistory, fenceHistory, cbWrites >>
  /\ UNCHANGED << passWrites, heapVars, geoVars, cmdTrace, winVars, failVars >>

\* The ObjectConstants record UpdateObjectCBs builds for an item.
ObjectConstantsOf(e) ==
  [ World        |-> XMMatrixTranspose(e.World),
    TWorld       |-> XMMatrixTransposeSym(InverseTranspose(e.World)),
    TexTransform |-> XMMatrixTranspose(e.TexTransform) ]

\* The MaterialConstants record UpdateMaterialCBs builds for a material.
MaterialConstantsOf(mat) ==
  [ DiffuseAlbedo |-> mat.DiffuseAlbedo,
    FresnelR0     |-> mat.FresnelR0,
    Roughness     |-> mat.Roughness,
    MatTransform  |-> XMMatrixTranspose(mat.MatTransform) ]

\* Variant of IsDirty: the test is off by one.
IsDirty_OffByOne(numFramesDirty) == numFramesDirty > 1

\* Variant of IsDirty: the counter is not looked at.
IsDirty_Always(numFramesDirty) == TRUE

\* Only update the cbuffer data if the constants have changed.
IsDirty(numFramesDirty) == numFramesDirty > 0

\* Variant of DecrementDirty: the counter is cleared after one copy.
DecrementDirty_Cleared(numFramesDirty) == 0

\* Next FrameResource need to be updated too.
DecrementDirty(numFramesDirty) == numFramesDirty - 1

\* ShapesApp::UpdateObjectCBs, the buffer: the loop over mAllRitems from
\* position p on.
RECURSIVE CopyObjectCBs(_, _, _)
CopyObjectCBs(buf, ritems, p) ==
  IF p > Len(ritems) THEN buf
  ELSE CopyObjectCBs(
         IF IsDirty(ritems[p].NumFramesDirty)
         THEN CopyData(buf, ritems[p].ObjCBIndex, ObjectConstantsOf(ritems[p]))
         ELSE buf,
         ritems, p + 1)

\* ShapesApp::UpdateObjectCBs, the items.
ObjectsAfterCopy(ritems) ==
  [ p \in 1 .. Len(ritems) |->
      IF IsDirty(ritems[p].NumFramesDirty)
      THEN [ritems[p] EXCEPT !.NumFramesDirty = DecrementDirty(@)]
      ELSE ritems[p] ]

\* ShapesApp::UpdateMaterialCBs, the buffer: the loop over the materials
\* left (an unordered_map: the order is the container's).
RECURSIVE CopyMaterialCBs(_, _, _)
CopyMaterialCBs(buf, mats, left) ==
  IF left = {} THEN buf
  ELSE LET n == CHOOSE x \in left : TRUE
       IN CopyMaterialCBs(
            IF IsDirty(mats[n].NumFramesDirty)
            THEN CopyData(buf, mats[n].MatCBIndex, MaterialConstantsOf(mats[n]))
            ELSE buf,
            mats, left \ {n})

\* ShapesApp::UpdateMaterialCBs, the materials.
MaterialsAfterCopy(mats) ==
  [ n \in DOMAIN mats |->
      IF IsDirty(mats[n].NumFramesDirty)
      THEN [mats[n] EXCEPT !.NumFramesDirty = DecrementDirty(@)]
      ELSE mats[n] ]

\* ShapesApp::UpdateMainPassCB: the record written.
MainPassCBOf(timer) ==
  [ Proj                |-> XMMatrixTransposeSym(mProj),
    RenderTargetSize    |-> << mClientWidth, mClientHeight >>,
    InvRenderTargetSize |-> << Quotient(1, mClientWidth), Quotient(1, mClientHeight) >>,
    NearZ               |-> 10,
    FarZ                |-> 10000,
    TotalTime           |-> timer.TotalTime,
    DeltaTime           |-> timer.DeltaTime ]

\* Variant of UpdateMainPassCB: the constants are copied only in a frame in
\* which the timer has moved.
UpdateMainPassCB_WhenTimeMoved(cb) ==
  IF cb.DeltaTime > 0 THEN << [elementIndex |-> 0, data |-> cb] >> ELSE << >>

\* ShapesApp::UpdateMainPassCB: the CopyData calls made on the PassCB of the
\* current frame resource, cb being the record just filled.
UpdateMainPassCB(cb) == << [elementIndex |-> 0, data |-> cb] >>

\* An upload buffer after the CopyData calls of copies, in their order.
RECURSIVE AfterCopies(_, _)
AfterCopies(buf, copies) ==
  IF copies = << >> THEN buf
  ELSE AfterCopies(CopyData(buf, Head(copies).elementIndex, Head(copies).data),
                   Tail(copies))

\* Variant of CopyTarget: the slot of the frame before.
CopyTarget_Previous ==
  (mCurrFrameResourceIndex + gNumFrameResources - 1) % gNumFrameResources

\* The ring slot whose buffers the copy step writes.
CopyTarget == mCurrFrameResourceIndex

\* Number of CopyData calls of one copy step.
CopyCount ==
  Cardinality({p \in 1 .. Len(mAllRitems) : IsDirty(mAllRitems[p].NumFramesDirty)})
  + Cardinality({n \in DOMAIN mMaterials : IsDirty(mMaterials[n].NumFramesDirty)})
  + 1

\* UpdateObjectCBs, UpdateMaterialCBs and UpdateMainPassCB of Update.
UpdateCBs ==
  /\ pc = "copy"
  /\ mMainPassCB' = MainPassCBOf(gt)
  /\ mFrameResources' =
       [mFrameResources EXCEPT ![CopyTarget] =
          [@ EXCEPT !.ObjectCB = CopyObjectCBs(@, mAllRitems, 1),
                    !.MaterialCB = CopyMaterialCBs(@, mMaterials, DOMAIN mMaterials),
                    !.PassCB = AfterCopies(@, UpdateMainPassCB(mMainPassCB'))]]
  /\ mAllRitems' = ObjectsAfterCopy(mAllRitems)
  /\ mMaterials' = MaterialsAfterCopy(mMaterials)
  /\ cbWrites' = [cbWrites EXCEPT ![CopyTarget] = @ + CopyCount]
  /\ passWrites' = [passWrites EXCEPT
                      ![CopyTarget] = @ + Len(UpdateMainPassCB(mMainPassCB'))]
  /\ pc' = "draw_reset"
  /\ UNCHANGED << md3dDevice, gt, mIsWireframe, mCurrFrameResourceIndex,
                  mCurrentFence, mFence, mCommandQueue, mCommandList,
                  mRitemLayer, released, frameNo, slotHistory, fenceHistory >>
  /\ UNCHANGED << heapVars, geoVars, cmdTrace, winVars, failVars >>

\* --------------------------------------------------------- pipeline states
\* ShapesApp::BuildPSOs: the names of the pipeline states built.
mPSOs == { "opaque", "transparent", "alphaTested", "treeSprites" }

\* The fill mode of the rasterizer state of a pipeline state: all four are
\* made with CD3DX12_RASTERIZER_DESC(D3D12_DEFAULT).
FillMode(pso) == "D3D12_FILL_MODE_SOLID"

\* Whether the blend state of a pipeline state blends: the transparent one
\* alone sets RenderTarget[0].BlendEnable.
BlendEnable(pso) == pso = "transparent"

\* -------------------------------------------------------------------- Draw
ResetCmd(alloc, pso) == [op |-> "Reset", alloc |-> alloc, pso |-> pso]
SetPipelineStateCmd(pso) == [op |-> "SetPipelineState", pso |-> pso]
SetPassCBCmd(slot) == [op |-> "SetPassCB", slot |-> slot]

\* Variant of ObjCBAddress: the index is added without the stride.
ObjCBAddress_Unscaled(ri) ==
  [ resource |-> GetGPUVirtualAddress(mCurrFrameResourceIndex, "ObjectCB"),
    offset |-> ri.ObjCBIndex ]

\* DrawRenderItems: the GPU address of an item's object constants is the
\* address of the current frame resource's ObjectCB plus ObjCBIndex times
\* objCBByteSize, kept as the resource and the byte offset into it.
ObjCBAddress(ri) ==
  [ resource |-> GetGPUVirtualAddress(mCurrFrameResourceIndex, "ObjectCB"),
    offset |-> ri.ObjCBIndex * CalcConstantBufferByteSize(SizeofObjectConstants) ]

\* DrawRenderItems: the GPU address of the constants of an item's material.
MatCBAddress(ri) ==
  [ resource |-> GetGPUVirtualAddress(mCurrFrameResourceIndex, "MaterialCB"),
    offset |-> mMaterials[ri.Mat].MatCBIndex
                 * CalcConstantBufferByteSize(SizeofMaterialConstants) ]

\* One iteration of the loop of DrawRenderItems: the indexed draw of the item
\* at position p, with the descriptor slot and the constant-buffer records
\* (ring slot, element) it binds.
DrawCmd(p) ==
  [ op    |-> "DrawIndexedInstanced",
    ri    |-> p,
    IndexCount |-> mAllRitems[p].IndexCount,
    tex   |-> mMaterials[mAllRitems[p].Mat].DiffuseSrvHeapIndex,
    objCBAddress |-> ObjCBAddress(mAllRitems[p]),
    matCBAddress |-> MatCBAddress(mAllRitems[p]),
    objCB |-> << mCurrFrameResourceIndex, mAllRitems[p].ObjCBIndex >>,
    matCB |-> << mCurrFrameResourceIndex, mMaterials[mAllRitems[p].Mat].MatCBIndex >> ]

\* ShapesApp::DrawRenderItems
DrawRenderItems(ritems) == [ i \in 1 .. Len(ritems) |-> DrawCmd(ritems[i]) ]

\* Variant of DrawCommands: the layers are drawn in the order of the enum.
DrawCommands_EnumOrder ==
  << SetPassCBCmd(mCurrFrameResourceIndex) >>
  \o DrawRenderItems(mRitemLayer[Opaque])
  \o << SetPipelineStateCmd("transparent") >>
  \o DrawRenderItems(mRitemLayer[Transparent])
  \o << SetPipelineStateCmd("alphaTested") >>
  \o DrawRenderItems(mRitemLayer[AlphaTested])
  \o << SetPipelineStateCmd("treeSprites") >>
  \o DrawRenderItems(mRitemLayer[AlphaTestedTreeSprites])

\* The commands Draw records between the Reset and the Close of the list.
DrawCommands ==
  << SetPassCBCmd(mCurrFrameResourceIndex) >>
  \o DrawRenderItems(mRitemLayer[Opaque])
  \o << SetPipelineStateCmd("alphaTested") >>
  \o DrawRenderItems(mRitemLayer[AlphaTested])
  \o << SetPipelineStateCmd("treeSprites") >>
  \o DrawRenderItems(mRitemLayer[AlphaTestedTreeSprites])
  \o << SetPipelineStateCmd("transparent") >>
  \o DrawRenderItems(mRitemLayer[Transparent])

\* ShapesApp::Draw: the current slot's allocator is reset and the command
\* list is reset onto it with the opaque pipeline state.
Draw_Reset ==
  /\ pc = "draw_reset"
  /\ mCommandList' = << ResetCmd(mCurrFrameResourceIndex, "opaque") >>
  /\ pc' = "draw_record"
  /\ cmdTrace' = cmdTrace \o DrawResetOps(mCurrFrameResourceIndex)
  /\ UNCHANGED << md3dDevice, gt, mIsWireframe, mCurrFrameResourceIndex,
                  mCurrentFence, mFence, mCommandQueue, mFrameResources,
                  mMaterials, mAllRitems, mRitemLayer, mMainPassCB, released,
                  frameNo, slotHistory, fenceHistory, cbWrites >>
  /\ UNCHANGED << passWrites, heapVars, geoVars, winVars, failVars >>

\* ShapesApp::Draw: the frame's commands are recorded.
Draw_Record ==
  /\ pc = "draw_record"
  /\ mCommandList' = mCommandList \o DrawCommands
  /\ pc' = "draw_submit"
  /\ cmdTrace' = Append(cmdTrace, RecordOp)
  /\ UNCHANGED << md3dDevice, gt, mIsWireframe, mCurrFrameResourceIndex,
                  mCurrentFence, mFence, mCommandQueue, mFrameResources,
                  mMaterials, mAllRitems, mRitemLayer, mMainPassCB, released,
                  frameNo, slotHistory, fenceHistory, cbWrites >>
  /\ UNCHANGED << passWrites, heapVars, geoVars, winVars, failVars >>

\* Advance the fence value to mark commands up to this fence point.
AdvanceFence(fence) == fence + 1

\* The value Draw hands to mCommandQueue->Signal, given the advanced counter.
SignalledValue(newFence) == newFence

\* Variant of StoredFence: the counter is read before its increment.
StoredFence_PostIncrement(newFence) == newFence - 1

\* Variant of StoredFence: the slot is given the value its next use will
\* issue.
StoredFence_NextUse(newFence) == newFence + gNumFrameResources

\* The value Draw stores in the current frame resource.
StoredFence(newFence) == newFence

\* ShapesApp::Draw: Close, ExecuteCommandLists, Present, the fence value of
\* the frame resource, Signal.
Draw_Submit ==
  /\ pc = "draw_submit"
  /\ mCurrentFence' = AdvanceFence(mCurrentFence)
  /\ mFrameResources' =
       [mFrameResources EXCEPT
          ![mCurrFrameResourceIndex].Fence = StoredFence(mCurrentFence')]
  /\ mCommandQueue' = mCommandQueue \o
       << ExecCmd(mCurrFrameResourceIndex, mCommandList),
          SignalCmd(SignalledValue(mCurrentFence')) >>
  /\ fenceHistory' = Append(fenceHistory, mCurrentFence')
  /\ pc' = "idle"
  /\ cmdTrace' = cmdTrace \o DrawSubmitOps
  /\ UNCHANGED << md3dDevice, gt, mIsWireframe, mCurrFrameResourceIndex,
                  mFence, mCommandList, mMaterials, mAllRitems, mRitemLayer,
                  mMainPassCB, released, frameNo, slotHistory, cbWrites >>
  /\ UNCHANGED << passWrites, heapVars, geoVars, winVars, failVars >>

\* ---------------------------------------------------------------- shutdown
\* D3DApp::Run returns (WM_QUIT) between two frames; WinMain leaves the scope
\* of theApp.
Quit ==
  /\ pc = "idle"
  /\ pc' = "dtor"
  /\ UNCHANGED << md3dDevice, gt, mIsWireframe, mCurrFrameResourceIndex,
                  mCurrentFence, mFence, mCommandQueue, mCommandList,
                  mFrameResources, mMaterials, mAllRitems, mRitemLayer,
                  mMainPassCB, released, frameNo, slotHistory, fenceHistory,
                  cbWrites >>
  /\ UNCHANGED << passWrites, heapVars, geoVars, cmdTrace, winVars, failVars >>

\* Variant of DestructorFlushes: the destructor does not flush.
DestructorFlushes_Never == FALSE

\* ShapesApp::~ShapesApp: whether the destructor flushes the queue.
DestructorFlushes == md3dDevice

\* ShapesApp::~ShapesApp, its body up to the wait of FlushCommandQueue.
Destructor ==
  /\ pc = "dtor"
  /\ IF DestructorFlushes
     THEN /\ FlushSignal
          /\ pc' = "dtor_flush"
     ELSE /\ UNCHANGED << mCurrentFence, mCommandQueue >>
          /\ pc' = "release"
  /\ UNCHANGED << md3dDevice, gt, mIsWireframe, mCurrFrameResourceIndex,
                  mFence, mCommandList, mFrameResources, mMaterials,
                  mAllRitems, mRitemLayer, mMainPassCB, released, frameNo,
                  slotHistory, fenceHistory, cbWrites >>
  /\ UNCHANGED << passWrites, heapVars, geoVars, cmdTrace, winVars, failVars >>

\* The FlushCommandQueue of the destructor returns.
DestructorFlushed ==
  /\ pc = "dtor_flush"
  /\ FlushReturns
  /\ pc' = "release"
  /\ UNCHANGED << md3dDevice, gt, mIsWireframe, mCurrFrameResourceIndex,
                  mCurrentFence, mFence, mCommandQueue, mCommandList,
                  mFrameResources, mMaterials, mAllRitems, mRitemLayer,
                  mMainPassCB, released, frameNo, slotHistory, fenceHistory,
                  cbWrites >>
  /\ UNCHANGED << passWrites, heapVars, geoVars, cmdTrace, winVars, failVars >>

\* After the destructor's body the members are destroyed: mFrameResources and
\* with it every slot's allocator and upload buffers.
ReleaseMembers ==
  /\ pc = "release"
  /\ released' = TRUE
  /\ pc' = "done"
  /\ UNCHANGED << md3dDevice, gt, mIsWireframe, mCurrFrameResourceIndex,
                  mCurrentFence, mFence, mCommandQueue, mCommandList,
                  mFrameResources, mMaterials, mAllRitems, mRitemLayer,
                  mMainPassCB, frameNo, slotHistory, fenceHistory, cbWrites >>
  /\ UNCHANGED << passWrites, heapVars, geoVars, cmdTrace, winVars, failVars >>

\* ---------------------------------------------------------------- failures
\* ThrowIfFailed on a failed call: the DxException leaves the frame loop and
\* unwinds the try block of WinMain, which destroys theApp.
Throw(call) ==
  /\ exception' = call
  /\ failedCall' = IF failedCall = "none" THEN call ELSE failedCall
  /\ reported' = reported
  /\ pc' = "dtor"

\* ShapesApp::Update: SetEventOnCompletion fails.
Update_WaitFails ==
  /\ pc = "wait"
  /\ Throw("mFence->SetEventOnCompletion")
  /\ UNCHANGED << md3dDevice, gt, mIsWireframe, mCurrFrameResourceIndex,
                  mCurrentFence, mFence, mCommandQueue, mCommandList,
                  mFrameResources, mMaterials, mAllRitems, mRitemLayer,
                  mMainPassCB, released, frameNo, slotHistory, fenceHistory,
                  cbWrites, passWrites, heapVars, geoVars, cmdTrace, winVars >>

\* ShapesApp::Draw: the Reset of the allocator fails.
Draw_AllocResetFails ==
  /\ pc = "draw_reset"
  /\ Throw("cmdListAlloc->Reset")
  /\ UNCHANGED << md3dDevice, gt, mIsWireframe, mCurrFrameResourceIndex,
                  mCurrentFence, mFence, mCommandQueue, mCommandList,
                  mFrameResources, mMaterials, mAllRitems, mRitemLayer,
                  mMainPassCB, released, frameNo, slotHistory, fenceHistory,
                  cbWrites, passWrites, heapVars, geoVars, cmdTrace, winVars >>

\* ShapesApp::Draw: the Reset of the command list fails.
Draw_ListResetFails ==
  /\ pc = "draw_reset"
  /\ Throw("mCommandList->Reset")
  /\ cmdTrace' = Append(cmdTrace, AllocResetOp(mCurrFrameResourceIndex))
  /\ UNCHANGED << md3dDevice, gt, mIsWireframe, mCurrFrameResourceIndex,
                  mCurrentFence, mFence, mCommandQueue, mCommandList,
                  mFrameResources, mMaterials, mAllRitems, mRitemLayer,
                  mMainPassCB, released, frameNo, slotHistory, fenceHistory,
                  cbWrites, passWrites, heapVars, geoVars, winVars >>

\* ShapesApp::Draw: the Close of the command list fails.
Draw_CloseFails ==
  /\ pc = "draw_submit"
  /\ Throw("mCommandList->Close")
  /\ UNCHANGED << md3dDevice, gt, mIsWireframe, mCurrFrameResourceIndex,
                  mCurrentFence, mFence, mCommandQueue, mCommandList,
                  mFrameResources, mMaterials, mAllRitems, mRitemLayer,
                  mMainPassCB, released, frameNo, slotHistory, fenceHistory,
                  cbWrites, passWrites, heapVars, geoVars, cmdTrace, winVars >>

\* ShapesApp::Draw: Present fails, the command list being on the queue.
Draw_PresentFails ==
  /\ pc = "draw_submit"
  /\ mCommandQueue' =
       Append(mCommandQueue, ExecCmd(mCurrFrameResourceIndex, mCommandList))
  /\ Throw("mSwapChain->Present")
  /\ cmdTrace' = cmdTrace \o DrawSubmitOps
  /\ UNCHANGED << md3dDevice, gt, mIsWireframe, mCurrFrameResourceIndex,
                  mCurrentFence, mFence, mCommandList, mFrameResources,
                  mMaterials, mAllRitems, mRitemLayer, mMainPassCB, released,
                  frameNo, slotHistory, fenceHistory, cbWrites, passWrites,
                  heapVars, geoVars, winVars >>

\* ShapesApp::Draw: the Signal of the queue fails.  Its HRESULT is dropped:
\* Draw returns as it does after a Signal that succeeded, with no Signal on
\* the queue.
Draw_SignalFails ==
  /\ pc = "draw_submit"
  /\ mCurrentFence' = AdvanceFence(mCurrentFence)
  /\ mFrameResources' =
       [mFrameResources EXCEPT
          ![mCurrFrameResourceIndex].Fence = StoredFence(mCurrentFence')]
  /\ mCommandQueue' =
       Append(mCommandQueue, ExecCmd(mCurrFrameResourceIndex, mCommandList))
  /\ fenceHistory' = Append(fenceHistory, mCurrentFence')
  /\ failedCall' = IF failedCall = "none" THEN "mCommandQueue->Signal"
                   ELSE failedCall
  /\ pc' = "idle"
  /\ cmdTrace' = cmdTrace \o DrawSubmitOps
  /\ UNCHANGED << md3dDevice, gt, mIsWireframe, mCurrFrameResourceIndex,
                  mFence, mCommandList, mMaterials, mAllRitems, mRitemLayer,
                  mMainPassCB, released, frameNo, slotHistory, cbWrites,
                  passWrites, heapVars, geoVars, winVars, exception, reported >>

\* WinMain: the handler of DxException shows the message box naming the
\* failed call and returns 0.
CatchDxException ==
  /\ pc = "done"
  /\ exception # "none"
  /\ reported' = exception
  /\ pc' = "exit"
  /\ UNCHANGED << md3dDevice, gt, mIsWireframe, mCurrFrameResourceIndex,
                  mCurrentFence, mFence, mCommandQueue, mCommandList,
                  mFrameResources, mMaterials, mAllRitems, mRitemLayer,
                  mMainPassCB, released, frameNo, slotHistory, fenceHistory,
                  cbWrites, passWrites, heapVars, geoVars, cmdTrace, winVars, exception,
                  failedCall >>

\* ------------------------------------------- scenes of any layer population
\* A scene of NumLayerItems boxes, the item at position i in layer f[i].
LayerScene(f) ==
  [ i \in 1 .. NumLayerItems |->
      [World |-> Matrix(10, 10 * i, 0), Mat |-> "door", SubMesh |-> "box",
       Layer |-> f[i]] ]

\* ShapesApp::Initialize with BuildRenderItems populating the layers in any
\* way.
InitializeAnyLayers ==
  \E f \in [1 .. NumLayerItems -> Layers] : InitializeWith(LayerScene(f))

\* ShapesApp::Update, for the first LayerFrames frames, the timer standing
\* still.
Update_AdvanceFew == UpdateAdvance(LayerFrames, 0)

\* ------------------------------------------------ scenes of any item names
\* A scene of a box and of one more item, built on shapeGeo with the
\* sub-mesh name sub and the material name mat.
NamedScene(sub, mat) ==
  << [World |-> Identity4x4, Mat |-> "bricks0", SubMesh |-> "box",
      Layer |-> Opaque],
     [World |-> Matrix(10, 10, 0), Mat |-> mat, SubMesh |-> sub,
      Layer |-> Opaque] >>

\* Names BuildRenderItems may be written with: registered ones, and one
\* sub-mesh name and one material name that are not.
SubMeshNamesTried == { "box", "pyramid" }
MaterialNamesTried == { "door", "lava" }

\* ri->Mat->NormalSrvHeapIndex = 1 with Mat null (mMaterials[name].get() of
\* a name not stored): undefined behaviour, which faults in BuildRenderItems
\* or does anything else.
NullMaterialWrite ==
  /\ pc = "init"
  /\ md3dDevice' = TRUE
  /\ cmdTrace' = Append(cmdTrace, ListResetOp(DirectCmdListAlloc))
  /\ pc' \in { "fault", "undefined" }
  /\ mGeometries' = [ shapeGeo |-> BuildShapeGeometry(meshes) ]
  /\ UNCHANGED << gt, mIsWireframe, mCurrFrameResourceIndex, mCurrentFence,
                  mFence, mCommandQueue, mCommandList, mFrameResources,
                  mMaterials, mAllRitems, mRitemLayer, mMainPassCB, released,
                  frameNo, slotHistory, fenceHistory, cbWrites, passWrites,
                  heapVars, meshes, winVars, failVars >>

\* ShapesApp::Initialize with BuildRenderItems naming any sub-mesh and any
\* material for an item.
InitializeAnyNames ==
  \E sub \in SubMeshNamesTried, mat \in MaterialNamesTried :
    IF mat \in MaterialNames
    THEN InitializeWith(NamedScene(sub, mat))
    ELSE NullMaterialWrite

\* ------------------------------------------------------------------ resize
\* Widths and heights of the client area a resize event may carry.
ClientSizes == { 0, 800 }

\* ShapesApp::OnResize, the client area having become width x height: the
\* projection is recomputed from the aspect ratio.
OnResize(width, height) ==
  /\ pc = "idle"
  /\ md3dDevice
  /\ mClientWidth' = width
  /\ mClientHeight' = height
  /\ mProj' = XMMatrixPerspectiveFovLH(AspectRatio(width, height))
  /\ UNCHANGED << pc, md3dDevice, gt, mIsWireframe, mCurrFrameResourceIndex,
                  mCurrentFence, mFence, mCommandQueue, mCommandList,
                  mFrameResources, mMaterials, mAllRitems, mRitemLayer,
                  mMainPassCB, released, frameNo, slotHistory, fenceHistory,
                  cbWrites, passWrites, heapVars, geoVars, cmdTrace,
                  failVars >>

\* A resize event is delivered between two frames.
ResizeEvent == \E width, height \in ClientSizes : OnResize(width, height)

\* ----------------------------------------------------------- specification
Next ==
  \/ Initialize
  \/ InitializeFails
  \/ InitializeDone
  \/ Update_Advance
  \/ Update_Wait
  \/ AnimateMaterials
  \/ UpdateCBs
  \/ Draw_Reset
  \/ Draw_Record
  \/ Draw_Submit
  \/ Quit
  \/ Destructor
  \/ DestructorFlushed
  \/ ReleaseMembers
  \/ GpuStep

Spec == Init /\ [][Next]_vars

\* The frame loop over scenes with any population of the four layers.
NextLayers ==
  \/ InitializeAnyLayers
  \/ InitializeDone
  \/ Update_AdvanceFew
  \/ AnimateMaterials
  \/ UpdateCBs
  \/ Draw_Reset
  \/ Draw_Record
  \/ Draw_Submit
  \/ GpuStep

SpecLayers == Init /\ [][NextLayers]_vars

\* The frame loop over scenes whose items are built with any names.
NextNames ==
  \/ InitializeAnyNames
  \/ InitializeDone
  \/ Update_Advance
  \/ Update_Wait
  \/ AnimateMaterials
  \/ UpdateCBs
  \/ Draw_Reset
  \/ Draw_Record
  \/ Draw_Submit
  \/ GpuStep

SpecNames == Init /\ [][NextNames]_vars

\* The frame loop with the window resized between frames.
NextResize ==
  \/ Initialize
  \/ InitializeDone
  \/ ResizeEvent
  \/ Update_AdvanceFew
  \/ AnimateMaterials
  \/ UpdateCBs
  \/ Draw_Reset
  \/ Draw_Record
  \/ Draw_Submit
  \/ GpuStep

SpecResize == Init /\ [][NextResize]_vars

\* The program with calls of the frame loop failing.
NextFail ==
  \/ Next
  \/ Update_WaitFails
  \/ Draw_AllocResetFails
  \/ Draw_ListResetFails
  \/ Draw_CloseFails
  \/ Draw_PresentFails
  \/ Draw_SignalFails
  \/ CatchDxException

SpecFail == Init /\ [][NextFail]_vars

\* Initialize on meshes of any sizes.
NextGeometry ==
  \/ Initialize
  \/ InitializeDone
  \/ GpuStep

SpecGeometry == InitGeometry /\ [][NextGeometry]_vars

\* ShapesApp::Update, the timer standing still (the time that passes plays
\* no part in the fences).
Update_AdvanceSteady == UpdateAdvance(MaxFrames, 0)

\* The message loop of D3DApp::Run while no WM_QUIT arrives: the CPU thread
\* goes from one call to the next without pause.
CpuStep ==
  \/ Initialize
  \/ InitializeDone
  \/ Update_AdvanceSteady
  \/ Update_Wait
  \/ AnimateMaterials
  \/ UpdateCBs
  \/ Draw_Reset
  \/ Draw_Record
  \/ Draw_Submit

NextLive ==
  \/ CpuStep
  \/ GpuStep

\* The running program: the CPU thread takes its next step whenever it can,
\* and the GPU eventually retires what is on its queue.
SpecLive ==
  /\ Init
  /\ [][NextLive]_vars
  /\ WF_vars(CpuStep)
  /\ WF_vars(GpuStep)

\* ================================================================== claims
FenceOf(k) == mFrameResources[k].Fence
Built == DOMAIN mFrameResources = Slots

\* The steps of the CPU the claims speak about.
AdvanceStep == pc = "idle" /\ pc' \in {"wait", "animate"}
WaitReturnStep == pc = "wait" /\ pc' # "wait"
AllocatorResetStep == pc = "draw_reset" /\ pc' = "draw_record"
SubmitStep == pc = "draw_submit" /\ pc' = "idle"

\* The GPU has completed the fence value stored in slot k, or the slot was
\* never submitted.
SlotRetired(k) == FenceOf(k) = 0 \/ mFence >= FenceOf(k)

\* C1: whenever Draw resets the command allocator of a ring slot, that slot's
\* stored fence value is 0 or the completed value of the fence has reached it,
\* however fast or slow the GPU retires the queue.
C1_ResetOnlyAfterFence ==
  [][AllocatorResetStep => SlotRetired(mCommandList'[1].alloc)]_vars

\* C1 witness: an allocator was reset for a slot that had been submitted
\* before.
C1_Witness ==
  /\ pc = "draw_record"
  /\ FenceOf(mCurrFrameResourceIndex) # 0
  /\ mCommandList[1].alloc = mCurrFrameResourceIndex

\* Slot k's constant buffers.
Buffers(fr) == << fr.ObjectCB, fr.MaterialCB, fr.PassCB >>

\* The step writes into a constant buffer of slot k.
WritesSlot(k) ==
  \/ cbWrites'[k] # cbWrites[k]
  \/ /\ k \in DOMAIN mFrameResources
     /\ Buffers(mFrameResources'[k]) # Buffers(mFrameResources[k])

\* C2: every step that writes an object, material or pass constant record
\* into a ring slot is the copy step of Update on the current slot (after the
\* fence wait, before the submit), and at that step no submitted command list
\* reading that slot is still on the GPU queue and the slot's fence value has
\* been completed.
C2_NoWriteWhileInFlight ==
  [][\A k \in Slots :
       WritesSlot(k) =>
         /\ pc = "copy" /\ pc' = "draw_reset"
         /\ k = mCurrFrameResourceIndex
         /\ ~InFlight(k)
         /\ SlotRetired(k)]_vars

\* C2 witness: the copy step has just written a slot that was submitted in
\* an earlier frame.
C2_Witness ==
  /\ pc = "draw_reset"
  /\ FenceOf(mCurrFrameResourceIndex) # 0
  /\ cbWrites[mCurrFrameResourceIndex] > Len(mAllRitems)

\* C3: the advance of Update goes into the fence wait exactly when the
\* selected slot's fence value is non-zero and the completed value is below
\* it, and the wait returns only with the completed value at or above it;
\* the advances of the first gNumFrameResources frames never wait, and the
\* next one waits for the fence value of frame 1 unless it is signalled.
C3_AdvanceBlocksExactly ==
  [][/\ AdvanceStep =>
          (pc' = "wait" <=>
             (FenceOf(mCurrFrameResourceIndex') # 0
              /\ mFence < FenceOf(mCurrFrameResourceIndex')))
     /\ WaitReturnStep => mFence >= FenceOf(mCurrFrameResourceIndex)
     /\ (AdvanceStep /\ frameNo' <= gNumFrameResources) => pc' = "animate"
     /\ (AdvanceStep /\ frameNo' = gNumFrameResources + 1) =>
          (pc' = "wait" <=> mFence < fenceHistory[1])
     /\ (WaitReturnStep /\ frameNo = gNumFrameResources + 1) =>
          mFence >= fenceHistory[1]]_vars

\* C3 witness: frame gNumFrameResources + 1 is in the fence wait and the GPU
\* has retired nothing of the frames submitted.
C3_Witness ==
  /\ pc = "wait"
  /\ frameNo = gNumFrameResources + 1
  /\ Len(mCommandQueue) = 2 * gNumFrameResources
  /\ mFence < fenceHistory[1]

\* C4: the current index is a ring slot, every Update selects the slot after
\* the one of the frame before (modulo the ring size, the first one after
\* slot 0), and frames less than a ring apart use different slots.
C4_RingAdvance ==
  /\ mCurrFrameResourceIndex \in Slots
  /\ Len(slotHistory) = frameNo
  /\ frameNo > 0 =>
       /\ slotHistory[1] = 1 % gNumFrameResources
       /\ slotHistory[frameNo] = mCurrFrameResourceIndex
  /\ \A i \in 1 .. (frameNo - 1) :
       slotHistory[i + 1] = (slotHistory[i] + 1) % gNumFrameResources
  /\ \A i, j \in 1 .. frameNo :
       (i < j /\ j - i < gNumFrameResources) => slotHistory[i] # slotHistory[j]

\* C4 witness: the ring has wrapped around onto the slot of frame 1.
C4_Witness ==
  /\ frameNo = gNumFrameResources + 1
  /\ mCurrFrameResourceIndex = slotHistory[1]

\* Ring slots of the frames submitted so far.
SubmittedSlots == { slotHistory[i] : i \in 1 .. Len(fenceHistory) }

\* C5: every submit adds exactly 1 to the fence counter, stores the new
\* value in the current slot and appends to the queue the frame's command
\* list followed by a Signal of that value; the stored value exceeds every
\* value issued before, the non-zero fence values of the slots are pairwise
\* distinct, and a slot's fence value is 0 exactly when it was not submitted.
C5_SubmitFence ==
  /\ [][SubmitStep =>
          /\ mCurrentFence' = mCurrentFence + 1
          /\ FenceOf(mCurrFrameResourceIndex)' = mCurrentFence'
          /\ mCommandQueue' = mCommandQueue \o
               << ExecCmd(mCurrFrameResourceIndex, mCommandList),
                  SignalCmd(mCurrentFence') >>
          /\ FenceOf(mCurrFrameResourceIndex)' > mCurrentFence
          /\ \A i \in 1 .. Len(fenceHistory) :
               FenceOf(mCurrFrameResourceIndex)' > fenceHistory[i]
          /\ \A k \in Slots : FenceOf(mCurrFrameResourceIndex)' > FenceOf(k)]_vars
  /\ [](Built =>
          /\ \A j, k \in Slots :
               (j # k /\ FenceOf(j) # 0) => FenceOf(j) # FenceOf(k)
          /\ \A k \in Slots : FenceOf(k) = 0 <=> k \notin SubmittedSlots)

\* C5 witness: a slot has been submitted a second time.
C5_Witness ==
  /\ pc = "idle"
  /\ Len(fenceHistory) = gNumFrameResources + 1
  /\ \A k \in Slots : FenceOf(k) # 0

\* The steps of a frame other than the advance and its fence wait.
FrameStep ==
  AnimateMaterials \/ UpdateCBs \/ Draw_Reset \/ Draw_Record \/ Draw_Submit

\* Fence values of the n frames submitted last.
LastFences(n) ==
  { fenceHistory[i] : i \in (Len(fenceHistory) - n + 1) .. Len(fenceHistory) }

\* C6: inside a frame the CPU can always take its next step except in the
\* fence wait of the advance, and the advance enters that wait only when
\* gNumFrameResources frames have been submitted and the GPU has completed
\* none of the gNumFrameResources submitted last.
C6_BlocksOnlyWhenRingFull ==
  /\ [](pc \in {"animate", "copy", "draw_reset", "draw_record", "draw_submit"}
          => ENABLED FrameStep)
  /\ [][(AdvanceStep /\ pc' = "wait") =>
          /\ Len(fenceHistory) >= gNumFrameResources
          /\ \A v \in LastFences(gNumFrameResources) : mFence < v
          /\ mCurrentFence - mFence >= gNumFrameResources]_vars

\* C6 witness: the CPU sits in the fence wait with a full ring of frames not
\* completed.
C6_Witness ==
  /\ pc = "wait"
  /\ Len(fenceHistory) >= gNumFrameResources
  /\ \A v \in LastFences(gNumFrameResources) : mFence < v

\* Update cycles (copy steps) completed so far.
CyclesDone == IF pc \in {"wait", "animate", "copy"} THEN frameNo - 1 ELSE frameNo

\* Materials AnimateMaterials never touches.
StaticMaterials == DOMAIN mMaterials \ {"water0", "gutsy"}

\* Slot k holds the packed current value of the item at position p / of
\* material n.
ItemInSlot(p, k) ==
  mFrameResources[k].ObjectCB[mAllRitems[p].ObjCBIndex]
    = ObjectConstantsOf(mAllRitems[p])
MaterialInSlot(n, k) ==
  mFrameResources[k].MaterialCB[mMaterials[n].MatCBIndex]
    = MaterialConstantsOf(mMaterials[n])

RemainingDirty == IF CyclesDone >= gNumFrameResources
                  THEN 0 ELSE gNumFrameResources - CyclesDone

\* Slots selected by the update cycles completed so far.
CycledSlots == { slotHistory[i] : i \in 1 .. CyclesDone }

\* C7: a step that changes the transform of an item or a material (its
\* construction included) leaves that object's dirty counter at exactly
\* gNumFrameResources; an object not changed since then has, after c update
\* cycles, its value in the slots of these cycles and a counter of
\* gNumFrameResources - c, hence after gNumFrameResources cycles its value
\* in all slots and a counter of 0.
C7_DirtyPropagation ==
  /\ [][/\ \A n \in DOMAIN mMaterials' :
             (n \notin DOMAIN mMaterials
                \/ mMaterials'[n].MatTransform # mMaterials[n].MatTransform)
               => mMaterials'[n].NumFramesDirty = gNumFrameResources
        /\ \A p \in DOMAIN mAllRitems' :
             (p \notin DOMAIN mAllRitems
                \/ mAllRitems'[p].World # mAllRitems[p].World
                \/ mAllRitems'[p].TexTransform # mAllRitems[p].TexTransform)
               => mAllRitems'[p].NumFramesDirty = gNumFrameResources]_vars
  /\ [](Built =>
          /\ \A p \in DOMAIN mAllRitems :
               /\ mAllRitems[p].NumFramesDirty = RemainingDirty
               /\ \A k \in CycledSlots : ItemInSlot(p, k)
               /\ CyclesDone >= gNumFrameResources
                    => \A k \in Slots : ItemInSlot(p, k)
          /\ \A n \in StaticMaterials :
               /\ mMaterials[n].NumFramesDirty = RemainingDirty
               /\ \A k \in CycledSlots : MaterialInSlot(n, k)
               /\ CyclesDone >= gNumFrameResources
                    => \A k \in Slots : MaterialInSlot(n, k))

\* C7 witness: exactly gNumFrameResources cycles are done, the animated
\* water material has just been changed again and every item has counter 0
\* and its value in every slot.
C7_Witness ==
  /\ pc = "copy"
  /\ CyclesDone = gNumFrameResources
  /\ mMaterials["water0"].NumFramesDirty = gNumFrameResources
  /\ mMaterials["water0"].MatTransform.m30 < 0
  /\ \A p \in DOMAIN mAllRitems :
       /\ mAllRitems[p].NumFramesDirty = 0
       /\ \A k \in Slots : ItemInSlot(p, k)

\* C8: from the end of the copy step to the submit of the frame, the current
\* slot holds, for every item and every material, the packing of the
\* object's current state at the object's constant slot.
C8_NoStaleConstants ==
  pc \in {"draw_reset", "draw_record", "draw_submit"} =>
    /\ \A p \in DOMAIN mAllRitems : ItemInSlot(p, mCurrFrameResourceIndex)
    /\ \A n \in DOMAIN mMaterials : MaterialInSlot(n, mCurrFrameResourceIndex)

\* C8 witness: a frame is about to be submitted from a slot used before,
\* with the animated materials changed since that slot was last written.
C8_Witness ==
  /\ pc = "draw_submit"
  /\ frameNo > gNumFrameResources
  /\ gt.DeltaTime > 0
  /\ mMaterials["gutsy"].MatTransform.m30 >= 2
  /\ \A p \in DOMAIN mAllRitems : mAllRitems[p].NumFramesDirty = 0

\* C10: the frame resources are destroyed only with the GPU drained: the
\* completed value has reached the last fence value issued and no submitted
\* command list is left on the queue.
C10_DrainBeforeRelease ==
  released =>
    /\ mFence >= mCurrentFence
    /\ \A i \in 1 .. Len(mCommandQueue) : mCommandQueue[i].kind # "exec"

\* C10 witness: the frame resources were destroyed after frames had been
\* submitted.
C10_Witness ==
  /\ released
  /\ Built
  /\ Len(fenceHistory) >= gNumFrameResources

\* Position of a layer in the order Opaque, AlphaTested,
\* AlphaTestedTreeSprites, Transparent.
DrawRank(l) ==
  CASE l = Opaque -> 1
    [] l = AlphaTested -> 2
    [] l = AlphaTestedTreeSprites -> 3
    [] OTHER -> 4

\* The pipeline state built for a layer.
LayerPso(l) ==
  CASE l = Opaque -> "opaque"
    [] l = AlphaTested -> "alphaTested"
    [] l = AlphaTestedTreeSprites -> "treeSprites"
    [] OTHER -> "transparent"

\* The layer holding the item at position p.
LayerOfItem(p) ==
  CHOOSE l \in Layers : \E i \in 1 .. Len(mRitemLayer[l]) : mRitemLayer[l][i] = p

IsDraw(cmds, i) == cmds[i].op = "DrawIndexedInstanced"
BindsPso(cmds, i) == cmds[i].op \in {"Reset", "SetPipelineState"}

\* The pipeline state bound when command i of cmds runs.
PsoAt(cmds, i) ==
  LET B == { j \in 1 .. i : BindsPso(cmds, j) }
  IN cmds[CHOOSE j \in B : \A h \in B : h <= j].pso

\* cmds draws every item once, layer by layer in the fixed order, each draw
\* under its layer's pipeline state.
DrawsInLayerOrder(cmds) ==
  LET D == { i \in 1 .. Len(cmds) : IsDraw(cmds, i) }
  IN /\ \A i, j \in D :
          i < j => DrawRank(LayerOfItem(cmds[i].ri)) <= DrawRank(LayerOfItem(cmds[j].ri))
     /\ \A i \in D : PsoAt(cmds, i) = LayerPso(LayerOfItem(cmds[i].ri))
     /\ \A p \in DOMAIN mAllRitems :
          Cardinality({ i \in D : cmds[i].ri = p }) = 1

\* C9: for any population of the four layers, empty layers included, the
\* command list of a frame draws the Opaque items first, then the
\* AlphaTested, then the AlphaTestedTreeSprites, then the Transparent ones,
\* each under the pipeline state of its layer.
C9_LayerOrder ==
  /\ pc \in {"draw_submit", "idle"} /\ frameNo > 0
       => DrawsInLayerOrder(mCommandList)
  /\ \A i \in 1 .. Len(mCommandQueue) :
       (mCommandQueue[i].kind = "exec" /\ mCommandQueue[i].alloc \in Slots)
         => DrawsInLayerOrder(mCommandQueue[i].cmds)

\* C9 witness: a frame is recorded with items in each of the four layers.
C9_Witness ==
  /\ pc = "draw_submit"
  /\ \A l \in Layers : Len(mRitemLayer[l]) > 0

\* C9 witness of an empty layer: a frame is recorded with no AlphaTested and
\* no Opaque item.
C9_WitnessEmpty ==
  /\ pc = "draw_submit"
  /\ Len(mRitemLayer[Opaque]) = 0
  /\ Len(mRitemLayer[AlphaTested]) = 0
  /\ Len(mRitemLayer[Transparent]) > 0

\* The frame loop has been left for the destruction of theApp.
LoopLeft == pc \in {"dtor", "dtor_flush", "release", "done", "exit"}

\* C11: once a call on the submission path of a frame has failed (the Reset
\* of the allocator or of the command list, Close, Present, Signal,
\* SetEventOnCompletion), the frame loop is left for good, so that no further
\* frame is recorded or submitted, and the process exits only with the
\* failed call reported.
C11_FailureIsFatal ==
  /\ failedCall # "none" => LoopLeft
  /\ pc = "exit" => reported = failedCall

\* The copy step of Update (UpdateObjectCBs, UpdateMaterialCBs,
\* UpdateMainPassCB).
CopyStep == pc = "copy" /\ pc' = "draw_reset"

\* Update cycles completed so far that selected slot k.
CyclesOn(k) == Cardinality({ i \in 1 .. CyclesDone : slotHistory[i] = k })

\* C12: every update cycle copies the pass constants exactly once, as the
\* full record of this frame, into the slot selected by the frame's advance
\* and into no other; no other step writes pass constants; so each slot has
\* as many pass-constant writes as update cycles that selected it, whatever
\* the dirty counters of items and materials are.
C12_PassConstantsEveryFrame ==
  /\ [][CopyStep =>
          /\ mCurrFrameResourceIndex = slotHistory[frameNo]
          /\ passWrites'[mCurrFrameResourceIndex]
               = passWrites[mCurrFrameResourceIndex] + 1
          /\ mFrameResources'[mCurrFrameResourceIndex].PassCB[0] = MainPassCBOf(gt)
          /\ \A k \in Slots \ {mCurrFrameResourceIndex} :
               /\ passWrites'[k] = passWrites[k]
               /\ mFrameResources'[k].PassCB = mFrameResources[k].PassCB]_vars
  /\ [][(~CopyStep /\ Built) =>
          /\ passWrites' = passWrites
          /\ \A k \in Slots :
               mFrameResources'[k].PassCB = mFrameResources[k].PassCB]_vars
  /\ [](Built => \A k \in Slots : passWrites[k] = CyclesOn(k))

\* C12 witness: a slot has its pass constants rewritten in a cycle in which
\* no item is dirty and the timer has not moved.
C12_Witness ==
  /\ pc = "draw_reset"
  /\ passWrites[mCurrFrameResourceIndex] = 2
  /\ gt.DeltaTime = 0
  /\ \A p \in DOMAIN mAllRitems : mAllRitems[p].NumFramesDirty = 0
  /\ mFrameResources[mCurrFrameResourceIndex].PassCB[0] = MainPassCBOf(gt)

\* The descriptor heap has been created and filled.
TableBuilt == DOMAIN mSrvDescriptorHeap = 0 .. (NumDescriptors - 1)

\* C13: for every material, DiffuseSrvHeapIndex is below the capacity of the
\* descriptor heap and is the descriptor at which BuildDescriptorHeaps
\* created the view of the material's texture, which that descriptor still
\* holds; so every draw recorded binds the descriptor of the texture of its
\* item's material.  (The materials are kept by name: the order of their
\* construction or storage plays no part.)
C13_DescriptorSlotOfMaterial ==
  (Built /\ TableBuilt) =>
    /\ \A n \in DOMAIN mMaterials :
         LET d == mMaterials[n].DiffuseSrvHeapIndex
         IN /\ d \in 0 .. (NumDescriptors - 1)
            /\ \E i \in 1 .. Len(srvWrites) :
                 srvWrites[i].slot = d /\ srvWrites[i].tex = TextureOfMaterial(n)
            /\ mSrvDescriptorHeap[d] = TextureOfMaterial(n)
    /\ \A i \in 1 .. Len(mCommandList) :
         IsDraw(mCommandList, i) =>
           mSrvDescriptorHeap[mCommandList[i].tex]
             = TextureOfMaterial(mAllRitems[mCommandList[i].ri].Mat)

\* C13 witness: a recorded frame draws an item of material gutsy with the
\* descriptor of redTex (loaded sixth, viewed fourth).
C13_Witness ==
  /\ pc = "draw_submit"
  /\ \E i \in 1 .. Len(mCommandList) :
       /\ IsDraw(mCommandList, i)
       /\ mAllRitems[mCommandList[i].ri].Mat = "gutsy"
       /\ mCommandList[i].tex = 3
       /\ mSrvDescriptorHeap[3] = "redTex"
       /\ LoadTextures[6] = "redTex"

\* The ObjCBIndex values of the items built.
ObjCBIndices == { mAllRitems[p].ObjCBIndex : p \in DOMAIN mAllRitems }

\* C14: once the scene is built, the ObjCBIndex values of the items are
\* exactly 0 .. itemCount-1, no two items sharing one, and the ObjectCB of
\* every frame resource has exactly itemCount elements.
C14_DenseObjCBIndex ==
  Built =>
    /\ ObjCBIndices = 0 .. (Len(mAllRitems) - 1)
    /\ \A p, q \in DOMAIN mAllRitems :
         mAllRitems[p].ObjCBIndex = mAllRitems[q].ObjCBIndex => p = q
    /\ \A k \in Slots :
         /\ DOMAIN mFrameResources[k].ObjectCB = 0 .. (Len(mAllRitems) - 1)
         /\ Cardinality(DOMAIN mFrameResources[k].ObjectCB) = Len(mAllRitems)

\* C14 witness: the scene is built, with the item of the literal index 0,
\* the items of the running counter and the last item at itemCount-1.
C14_Witness ==
  /\ Built
  /\ Len(mAllRitems) = Len(Scene)
  /\ Len(mAllRitems) > 2
  /\ mAllRitems[1].ObjCBIndex = 0
  /\ mAllRitems[2].ObjCBIndex = 1
  /\ mAllRitems[Len(mAllRitems)].ObjCBIndex = Len(mAllRitems) - 1

\* The draws among the commands cmds.
Draws(cmds) == { i \in 1 .. Len(cmds) : IsDraw(cmds, i) }

\* C15: a frame in whose Update the key '1' was down records its draws under
\* a pipeline state that fills in wireframe, and a frame in whose Update it
\* was up records them under one that fills solid.
C15_WireframeWhileKeyHeld ==
  pc = "draw_submit" =>
    \A i \in Draws(mCommandList) :
      (FillMode(PsoAt(mCommandList, i)) = "D3D12_FILL_MODE_WIREFRAME")
        <=> mIsWireframe

\* The positions of the water surface among the items.
WaterItems ==
  { p \in DOMAIN mAllRitems :
      mAllRitems[p].SubMesh = "water" /\ mAllRitems[p].Mat = "water0" }

\* The positions held by a layer.
LayerItems(l) == { mRitemLayer[l][i] : i \in 1 .. Len(mRitemLayer[l]) }

\* C18: the water surface is an item of the Transparent layer, and a recorded
\* frame draws it under the blending pipeline state after the draws of every
\* item of the other layers.
C18_WaterIsTransparent ==
  Built =>
    /\ WaterItems # {}
    /\ WaterItems \subseteq LayerItems(Transparent)
    /\ pc = "draw_submit" =>
         \A i \in Draws(mCommandList) :
           mCommandList[i].ri \in WaterItems =>
             /\ BlendEnable(PsoAt(mCommandList, i))
             /\ \A j \in Draws(mCommandList) :
                  mCommandList[j].ri \notin LayerItems(Transparent) => j < i

Clamped(n) == IF n < 1 THEN 1 ELSE n

\* C17: whatever the client area was resized to, a width or height of zero
\* included, the projection and the render-target size and inverse size of
\* the pass constants written for a frame are computed from the width and
\* the height clamped to at least 1, so that nothing is divided by zero.
C17_ZeroSizeClamped ==
  /\ Built =>
       mProj = XMMatrixPerspectiveFovLH(
                 AspectRatio(Clamped(mClientWidth), Clamped(mClientHeight)))
  /\ pc \in {"draw_reset", "draw_record", "draw_submit"} =>
       LET cb == mFrameResources[mCurrFrameResourceIndex].PassCB[0]
       IN /\ cb.RenderTargetSize
               = << Clamped(mClientWidth), Clamped(mClientHeight) >>
          /\ cb.InvRenderTargetSize
               = << Quotient(1, Clamped(mClientWidth)),
                    Quotient(1, Clamped(mClientHeight)) >>
          /\ cb.InvRenderTargetSize[1].den # 0
          /\ cb.InvRenderTargetSize[2].den # 0

\* Items and materials whose dirty counter is above 0.
DirtyItems ==
  { p \in DOMAIN mAllRitems : mAllRitems[p].NumFramesDirty > 0 }
DirtyMaterials ==
  { n \in DOMAIN mMaterials : mMaterials[n].NumFramesDirty > 0 }

\* C19: the copy step of an update cycle writes, into the current slot, the
\* record of exactly the items and materials whose dirty counter is above 0,
\* each once at its own constant slot, and lowers each such counter by
\* exactly 1; an object of counter 0 keeps its counter and its record; no
\* record of another constant slot and no object or material buffer of
\* another ring slot changes, and nothing of an object but its counter.
C19_CopyStepEffect ==
  [][CopyStep =>
       LET cur == mCurrFrameResourceIndex
           old == mFrameResources[cur]
           new == mFrameResources'[cur]
       IN /\ \A p \in DOMAIN mAllRitems :
               LET e == mAllRitems[p]
               IN IF p \in DirtyItems
                  THEN /\ new.ObjectCB[e.ObjCBIndex] = ObjectConstantsOf(e)
                       /\ mAllRitems'[p] =
                            [e EXCEPT !.NumFramesDirty = e.NumFramesDirty - 1]
                  ELSE /\ new.ObjectCB[e.ObjCBIndex] = old.ObjectCB[e.ObjCBIndex]
                       /\ mAllRitems'[p] = e
                       /\ e.NumFramesDirty = 0
          /\ \A n \in DOMAIN mMaterials :
               LET mat == mMaterials[n]
               IN IF n \in DirtyMaterials
                  THEN /\ new.MaterialCB[mat.MatCBIndex] = MaterialConstantsOf(mat)
                       /\ mMaterials'[n] =
                            [mat EXCEPT !.NumFramesDirty = mat.NumFramesDirty - 1]
                  ELSE /\ new.MaterialCB[mat.MatCBIndex] = old.MaterialCB[mat.MatCBIndex]
                       /\ mMaterials'[n] = mat
                       /\ mat.NumFramesDirty = 0
          /\ DOMAIN mAllRitems' = DOMAIN mAllRitems
          /\ DOMAIN mMaterials' = DOMAIN mMaterials
          /\ \A c \in DOMAIN old.ObjectCB :
               (\A p \in DirtyItems : mAllRitems[p].ObjCBIndex # c)
                 => new.ObjectCB[c] = old.ObjectCB[c]
          /\ \A c \in DOMAIN old.MaterialCB :
               (\A n \in DirtyMaterials : mMaterials[n].MatCBIndex # c)
                 => new.MaterialCB[c] = old.MaterialCB[c]
          /\ cbWrites'[cur] - cbWrites[cur]
               = Cardinality(DirtyItems) + Cardinality(DirtyMaterials) + 1
          /\ \A k \in Slots \ {cur} :
               /\ mFrameResources'[k] = mFrameResources[k]
               /\ cbWrites'[k] = cbWrites[k]]_vars

\* C19 witness: a copy step has written the animated materials alone: the
\* items and the other materials had counter 0 and keep, in every slot, the
\* record written in the first cycles.
C19_Witness ==
  /\ pc = "draw_reset"
  /\ frameNo > gNumFrameResources
  /\ mMaterials["water0"].NumFramesDirty = gNumFrameResources - 1
  /\ mMaterials["gutsy"].NumFramesDirty = gNumFrameResources - 1
  /\ \A p \in DOMAIN mAllRitems :
       /\ mAllRitems[p].NumFramesDirty = 0
       /\ \A k \in Slots : ItemInSlot(p, k)
  /\ \A n \in StaticMaterials :
       /\ mMaterials[n].NumFramesDirty = 0
       /\ \A k \in Slots : MaterialInSlot(n, k)
  /\ ~MaterialInSlot("water0", NextFrameResourceIndex(mCurrFrameResourceIndex))

\* The textures loaded.
TexturesLoaded == { mTextures[k] : k \in 1 .. Len(mTextures) }

\* C20 as claimed: the k-th texture inserted by LoadTextures has its view at
\* descriptor k (from 0), created as the k-th view, none skipped or written
\* twice.
C20_InsertionOrder ==
  TableBuilt =>
    /\ Len(srvWrites) = Len(mTextures)
    /\ \A k \in 1 .. Len(mTextures) :
         /\ srvWrites[k] = [tex |-> mTextures[k], slot |-> k - 1]
         /\ mSrvDescriptorHeap[k - 1] = mTextures[k]

\* C20 amended: the k-th view BuildDescriptorHeaps creates goes to
\* descriptor k (from 0) and stays there, so that no descriptor is skipped or
\* written twice; every texture loaded gets exactly one view, and the
\* descriptors after the last view stay without one.
C20_ViewsInCreationOrder ==
  TableBuilt =>
    /\ Len(srvWrites) = Len(mTextures)
    /\ Len(srvWrites) <= NumDescriptors
    /\ \A k \in 1 .. Len(srvWrites) :
         /\ srvWrites[k].slot = k - 1
         /\ mSrvDescriptorHeap[k - 1] = srvWrites[k].tex
    /\ \A t \in TexturesLoaded :
         Cardinality({ k \in 1 .. Len(srvWrites) : srvWrites[k].tex = t }) = 1
    /\ \A d \in Len(srvWrites) .. (NumDescriptors - 1) :
         mSrvDescriptorHeap[d] = NoView

\* C20 witness: the table is built, the fourth view created is the one of
\* redTex while the fourth texture inserted is waterTex.
C20_Witness ==
  /\ TableBuilt
  /\ pc = "idle"
  /\ srvWrites[4] = [tex |-> "redTex", slot |-> 3]
  /\ mSrvDescriptorHeap[3] = "redTex"
  /\ mTextures[4] = "waterTex"

\* ------------------------------------------------------------ C21 .. C30
\* shapeGeo is built.
GeometryBuilt == DOMAIN mGeometries = { "shapeGeo" }

\* The positions (from 0) of a packed buffer that hold elements of a mesh.
PositionsHolding(buf, mesh) == { i \in 0 .. (Len(buf) - 1) : buf[i + 1] = mesh }

\* Number of elements the meshes packed before a mesh put into a buffer.
PackedBefore(buf, mesh) ==
  Cardinality({ i \in 0 .. (Len(buf) - 1) :
                  \A j \in PositionsHolding(buf, mesh) : i < j })

AlignedStride(sizeofT) ==
  CHOOSE n \in 1 .. (sizeofT + 256) :
    n % 256 = 0 /\ n >= sizeofT /\ n - 256 < sizeofT

\* The bytes off .. off + size - 1.
ByteRange(off, size) == off .. (off + size - 1)

PlacesOf(p) ==
  { pl \in Layers \X (1 .. Len(mAllRitems)) :
      /\ pl[2] <= Len(mRitemLayer[pl[1]])
      /\ mRitemLayer[pl[1]][pl[2]] = p }

\* C23: the four layers partition the render items: every layer entry is an
\* item built, and every item is held by exactly one layer, once; so a
\* recorded frame holds exactly one draw for each item and no other draw.
C23_LayersPartitionItems ==
  Built =>
    /\ \A l \in Layers : Len(mRitemLayer[l]) <= Len(mAllRitems)
    /\ \A l \in Layers : LayerItems(l) \subseteq DOMAIN mAllRitems
    /\ \A p \in DOMAIN mAllRitems : Cardinality(PlacesOf(p)) = 1
    /\ pc = "draw_submit" =>
         /\ Cardinality(Draws(mCommandList)) = Len(mAllRitems)
         /\ \A p \in DOMAIN mAllRitems :
              Cardinality({ i \in Draws(mCommandList) :
                              mCommandList[i].ri = p }) = 1

\* C23 witness: a recorded frame of a scene that populates two layers.
C23_Witness ==
  /\ pc = "draw_submit"
  /\ frameNo = 2
  /\ LayerItems(Opaque) # {}
  /\ LayerItems(AlphaTestedTreeSprites) # {}
  /\ Len(mAllRitems) >= 3
  /\ Cardinality(Draws(mCommandList)) = Len(mAllRitems)

\* The MatCBIndex values of the materials built.
MatCBIndices == { mMaterials[n].MatCBIndex : n \in DOMAIN mMaterials }

\* C24: once the scene is built, the MatCBIndex values of the materials are
\* pairwise distinct and exactly 0 .. materialCount-1, and the MaterialCB of
\* every ring slot has exactly materialCount records; and once the descriptor
\* table is built no step changes the set of materials, the MatCBIndex or the
\* DiffuseSrvHeapIndex of a material.
C24_MaterialSlots ==
  /\ [](Built =>
         LET materialCount == Cardinality(DOMAIN mMaterials)
         IN  /\ MatCBIndices = 0 .. (materialCount - 1)
             /\ \A n1, n2 \in DOMAIN mMaterials :
                  n1 # n2 => mMaterials[n1].MatCBIndex # mMaterials[n2].MatCBIndex
             /\ \A k \in Slots :
                  DOMAIN mFrameResources[k].MaterialCB = 0 .. (materialCount - 1))
  /\ [][TableBuilt =>
          /\ DOMAIN mMaterials' = DOMAIN mMaterials
          /\ \A n \in DOMAIN mMaterials :
               /\ mMaterials'[n].MatCBIndex = mMaterials[n].MatCBIndex
               /\ mMaterials'[n].DiffuseSrvHeapIndex
                    = mMaterials[n].DiffuseSrvHeapIndex]_vars

\* C24 witness: the table is built and materials have been animated and
\* copied through more than a turn of the ring.
C24_Witness ==
  /\ Built
  /\ TableBuilt
  /\ pc = "idle"
  /\ frameNo = gNumFrameResources + 1
  /\ mMaterials["water0"].MatTransform # Identity4x4
  /\ mMaterials["water0"].MatCBIndex = 4
  /\ Cardinality(DOMAIN mMaterials) = 9

\* The CPU is inside the frame loop (Update, Draw).
InLoop ==
  pc \in { "idle", "wait", "animate", "copy", "draw_reset", "draw_record",
           "draw_submit" }

\* An item but for its dirty counter; a material but for its transform and
\* its dirty counter.
ItemIdentity(e) == [e EXCEPT !.NumFramesDirty = 0]
MaterialIdentity(mat) ==
  [mat EXCEPT !.NumFramesDirty = 0, !.MatTransform = Identity4x4]

IncompleteFrames ==
  { i \in 1 .. Len(fenceHistory) : fenceHistory[i] > mFence }

SignalEnqueued(v) ==
  /\ \E i \in 1 .. Len(fenceHistory) : fenceHistory[i] = v
  /\ \/ mFence >= v
     \/ \E i \in 1 .. Len(mCommandQueue) :
          mCommandQueue[i].kind = "signal" /\ mCommandQueue[i].value = v

\* C27: the fence wait of Update is only entered for a fence value an earlier
\* Draw issued and whose Signal is enqueued; so, the GPU eventually executing
\* what is enqueued, every wait returns, and whenever n frames have been
\* submitted an (n+1)-th is submitted later (for every n below the frames the
\* model runs).
C27_NoFenceDeadlock ==
  /\ [](pc = "wait" => SignalEnqueued(FenceOf(mCurrFrameResourceIndex)))
  /\ (pc = "wait") ~> (pc = "animate")
  /\ \A n \in 0 .. (MaxFrames - 1) :
       (Len(fenceHistory) = n) ~> (Len(fenceHistory) = n + 1)

\* C27 witness: the CPU waits for the fence value of the frame a ring ago
\* while the GPU has executed none of the signals of the frames submitted.
C27_Witness ==
  /\ pc = "wait"
  /\ frameNo = gNumFrameResources + 1
  /\ FenceOf(mCurrFrameResourceIndex) = fenceHistory[1]
  /\ mFence < fenceHistory[1]
  /\ SignalEnqueued(fenceHistory[1])

\* C28: in every reachable state the dirty counter of every render item and
\* of every material lies in 0 .. gNumFrameResources.
C28_DirtyCounterRange ==
  /\ \A p \in DOMAIN mAllRitems :
       mAllRitems[p].NumFramesDirty \in 0 .. gNumFrameResources
  /\ \A n \in DOMAIN mMaterials :
       mMaterials[n].NumFramesDirty \in 0 .. gNumFrameResources

\* C28 witness: past the first turn of the ring, between the animation and
\* the copy step: the counters of the items stand at 0, the one of an
\* animated material was put back to gNumFrameResources.
C28_Witness ==
  /\ pc = "copy"
  /\ frameNo = gNumFrameResources + 2
  /\ \A p \in DOMAIN mAllRitems : mAllRitems[p].NumFramesDirty = 0
  /\ mMaterials["gutsy"].NumFramesDirty = gNumFrameResources
  /\ mMaterials["sand0"].NumFramesDirty = 0

\* The materials AnimateMaterials scrolls.
AnimatedMaterials == { "water0", "gutsy" }

\* C29: the two animated materials are marked dirty again in every frame
\* before the copy step: their counters are gNumFrameResources at the copy
\* step, gNumFrameResources - 1 from the end of an Update to the animation
\* of the next, and never 0, and every copy step writes their current
\* records into the current slot.  Every other material and every item has
\* counter 0 once gNumFrameResources cycles are done, and the copy steps
\* after these write nothing but the two animated materials (and the pass
\* constants, which C12 is about).
C29_AnimatedStayDirty ==
  /\ [](Built =>
         /\ \A n \in AnimatedMaterials :
              /\ mMaterials[n].NumFramesDirty > 0
              /\ pc = "copy" => mMaterials[n].NumFramesDirty = gNumFrameResources
              /\ (CyclesDone >= 1 /\ pc # "copy")
                   => mMaterials[n].NumFramesDirty = gNumFrameResources - 1
         /\ CyclesDone >= gNumFrameResources =>
              /\ \A p \in DOMAIN mAllRitems : mAllRitems[p].NumFramesDirty = 0
              /\ \A n \in StaticMaterials : mMaterials[n].NumFramesDirty = 0)
  /\ [][CopyStep =>
          LET cur == mCurrFrameResourceIndex
              old == mFrameResources[cur]
              new == mFrameResources'[cur]
          IN  /\ \A n \in AnimatedMaterials :
                   new.MaterialCB[mMaterials[n].MatCBIndex]
                     = MaterialConstantsOf(mMaterials[n])
              /\ CyclesDone >= gNumFrameResources =>
                   /\ new.ObjectCB = old.ObjectCB
                   /\ \A n \in StaticMaterials :
                        new.MaterialCB[mMaterials[n].MatCBIndex]
                          = old.MaterialCB[mMaterials[n].MatCBIndex]
                   /\ cbWrites'[cur] - passWrites'[cur]
                        = (cbWrites[cur] - passWrites[cur])
                            + Cardinality(AnimatedMaterials)]_vars

\* C29 witness: the copy step of a frame past the first turn of the ring has
\* just run: the animated materials stand at gNumFrameResources - 1, their
\* scrolled records are in the current slot, everything else is at 0.
C29_Witness ==
  /\ pc = "draw_reset"
  /\ frameNo = gNumFrameResources + 2
  /\ mMaterials["water0"].NumFramesDirty = gNumFrameResources - 1
  /\ mMaterials["water0"].MatTransform # Identity4x4
  /\ MaterialInSlot("water0", mCurrFrameResourceIndex)
  /\ MaterialInSlot("gutsy", mCurrFrameResourceIndex)
  /\ \A p \in DOMAIN mAllRitems : mAllRitems[p].NumFramesDirty = 0
  /\ \A n \in StaticMaterials : mMaterials[n].NumFramesDirty = 0

\* The command list is open before call i of the trace: the last Reset or
\* Close before it is a Reset (the list is handed over closed).
OpenBefore(i) ==
  LET B == { j \in 1 .. (i - 1) : cmdTrace[j].op \in { "Reset", "Close" } }
  IN  /\ B # {}
      /\ cmdTrace[CHOOSE j \in B : \A h \in B : h <= j].op = "Reset"

\* The allocator of the Reset at i was reset before it, and the list was not
\* reset onto it in between.
AllocatorResetBefore(i) ==
  \E j \in 1 .. (i - 1) :
    /\ cmdTrace[j] = [op |-> "Allocator::Reset", alloc |-> cmdTrace[i].alloc]
    /\ \A h \in (j + 1) .. (i - 1) : cmdTrace[h].op # "Reset"

\* Every Record and Close finds the list open, every Reset and Execute
\* finds it closed, and an Execute comes right after the Close.
OpenClosedProtocol ==
  \A i \in 1 .. Len(cmdTrace) :
    LET op == cmdTrace[i].op
    IN  /\ op \in { "Record", "Close" } => OpenBefore(i)
        /\ op \in { "Reset", "ExecuteCommandLists" } => ~OpenBefore(i)
        /\ op = "ExecuteCommandLists" => i > 1 /\ cmdTrace[i - 1].op = "Close"

\* The calls of the frames submitted: each frame adds, after those of the
\* initialization, the reset of its slot's allocator, the reset of the list
\* onto it, the recording, one Close and the execution.
FramesAreFullSequences ==
  LET init == 4
      calls == 5
  IN  \A f \in 1 .. Len(fenceHistory) :
        /\ Len(cmdTrace) >= init + calls * f
        /\ SubSeq(cmdTrace, init + calls * (f - 1) + 1, init + calls * f)
             = << [op |-> "Allocator::Reset", alloc |-> slotHistory[f]],
                  [op |-> "Reset", alloc |-> slotHistory[f]],
                  [op |-> "Record"], [op |-> "Close"],
                  [op |-> "ExecuteCommandLists"] >>

\* C30 as stated: over the initialization and all frames the list is reset
\* only while closed and only after the allocator it is reset onto has been
\* reset, commands are recorded only while it is open, it is closed exactly
\* once before each execution, and every frame is one allocator-reset,
\* list-reset, record, close, execute sequence.
C30_ListProtocol ==
  /\ OpenClosedProtocol
  /\ FramesAreFullSequences
  /\ \A i \in 1 .. Len(cmdTrace) :
       cmdTrace[i].op = "Reset" => AllocatorResetBefore(i)

\* C30 amended: the open/closed protocol holds over the initialization and
\* all frames, and every frame is one allocator-reset, list-reset, record,
\* close, execute sequence, so that in a frame the list is reset onto an
\* allocator just reset; the initialization resets the list onto
\* mDirectCmdListAlloc, which is never reset.
C30_ListProtocolOfFrames ==
  /\ OpenClosedProtocol
  /\ FramesAreFullSequences
  /\ \A i \in 1 .. Len(cmdTrace) :
       /\ cmdTrace[i].op = "Reset" =>
            IF cmdTrace[i].alloc \in Slots
            THEN i > 1 /\ cmdTrace[i - 1]
                           = [op |-> "Allocator::Reset", alloc |-> cmdTrace[i].alloc]
            ELSE i = 1 /\ cmdTrace[i].alloc = DirectCmdListAlloc
       /\ cmdTrace[i].op = "Allocator::Reset" => cmdTrace[i].alloc \in Slots

\* C30 witness: frames of more than a turn of the ring are submitted after
\* the initialization, the last one just executed.
C30_Witness ==
  /\ pc = "idle"
  /\ Len(fenceHistory) = gNumFrameResources + 1
  /\ Len(cmdTrace) = 4 + 5 * (gNumFrameResources + 1)
  /\ cmdTrace[1] = [op |-> "Reset", alloc |-> DirectCmdListAlloc]
  /\ cmdTrace[Len(cmdTrace)].op = "ExecuteCommandLists"
  /\ ~OpenBefore(Len(cmdTrace) + 1)

====
